---- MODULE Spec2Model ----
(***************************************************************************)
(* Model of the qsiprep interfaces in                                      *)
(*   src/qsiprep/interfaces/gradients.py                                   *)
(*   src/qsiprep/interfaces/images.py                                      *)
(*                                                                         *)
(* Every interface invocation is a small state machine held in one record  *)
(* variable (its inputs, its position pc, its locals and its result        *)
(* record self._results).  Python lists are sequences; a Python index i    *)
(* (0-based) is position i + 1 of the sequence.  Files are tokens: what a  *)
(* file was computed from is kept in the token.                            *)
(***************************************************************************)
EXTENDS Integers, Sequences, FiniteSets, TLC

VARIABLES
    mt,     \* a MatchTransforms invocation
    ct,     \* a ComposeTransforms invocation
    rpe,    \* a ConcatRPESplits invocation
    lgr,    \* a LocalGradientRotation invocation
    imm,    \* an IntraModalMerge invocation
    gr,     \* a GradientRotation invocation
    sdw,    \* a SplitDWIs invocation
    cdw,    \* a ConformDwi invocation
    cfm,    \* a Conform invocation
    rtp,    \* a gradient table split into per-volume files and concatenated again
    tns     \* a tensor volume written by create_tensor_image and read back

vars == <<mt, ct, rpe, lgr, imm, gr, sdw, cdw, cfm, rtp, tns>>

\* an interface that is not invoked in the behaviour at hand
Idle == [pc |-> "idle"]

(***************************************************************************)
(* Bounds of the model.                                                    *)
(***************************************************************************)
MaxVols == 4
MaxTransforms == 3
MaxB0 == 3
\* ComposeTransforms: volumes, and the largest thread count tried
CTMaxVols == 3
CTMaxThreads == 2
\* ConcatRPESplits: volumes per series
RPEMaxVols == 3
\* LocalGradientRotation: volumes
LGRMaxVols == 3
\* GradientRotation: entries per input list
GRMaxVols == 3
\* IntraModalMerge: input files
IMMMaxFiles == 2
\* SplitDWIs and the gradient-table round trip: volumes
SplitMaxVols == 4
\* ConformDwi: columns of the bvec table
CDMaxVols == 2

(***************************************************************************)
(* Helpers for Python list idioms.                                         *)
(***************************************************************************)
\* range(n) as the sequence <<0, ..., n-1>>
range(n) == [k \in 1..n |-> k - 1]

\* all sequences over S of length 0..n
SeqsUpTo(S, n) == UNION {[1..k -> S] : k \in 0..n}

abs(x) == IF x < 0 THEN -x ELSE x

(***************************************************************************)
(* match_transforms (gradients.py 279-298)                                 *)
(***************************************************************************)
\* np.argmin: position (0-based) of the first occurrence of the minimum,
\* found by a left-to-right scan that only moves on a strictly smaller value.
RECURSIVE argmin_scan(_, _, _)
argmin_scan(a, k, best) ==
    IF k > Len(a) THEN best
    ELSE argmin_scan(a, k + 1, IF a[k] < a[best] THEN k ELSE best)

argmin(a) == argmin_scan(a, 2, 1) - 1

\* a scan that also moves on an equal value: the last occurrence of the minimum
RECURSIVE argmin_last_scan(_, _, _)
argmin_last_scan(a, k, best) ==
    IF k > Len(a) THEN best
    ELSE argmin_last_scan(a, k + 1, IF a[k] <= a[best] THEN k ELSE best)

nearest_b0_num_last(index, original_b0_indices) ==
    argmin_last_scan([j \in 1..Len(original_b0_indices) |->
                         abs(index - original_b0_indices[j])], 2, 1) - 1

\* line 294: np.argmin(np.abs(index - original_b0_indices))
nearest_b0_num(index, original_b0_indices) ==
    argmin([j \in 1..Len(original_b0_indices) |->
               abs(index - original_b0_indices[j])])

\* lines 292-296: the loop over range(num_dwis)
nearest_affines(num_dwis, transforms, b0_indices) ==
    [p \in 1..num_dwis |-> transforms[nearest_b0_num(p - 1, b0_indices) + 1]]

\* the call without the early return for equal lengths
match_transforms_always_nearest(dwi_files, transforms, b0_indices) ==
    IF ~(Len(transforms) = Len(b0_indices))
    THEN [raised |-> TRUE, value |-> <<>>]
    ELSE [raised |-> FALSE,
          value |-> nearest_affines(Len(dwi_files), transforms, b0_indices)]

\* the call with a sanity check that only rejects too few transforms
match_transforms_lenient_check(dwi_files, transforms, b0_indices) ==
    IF Len(dwi_files) = Len(transforms)
    THEN [raised |-> FALSE, value |-> transforms]
    ELSE IF Len(transforms) < Len(b0_indices)
    THEN [raised |-> TRUE, value |-> <<>>]
    ELSE [raised |-> FALSE,
          value |-> nearest_affines(Len(dwi_files), transforms, b0_indices)]

\* The outcome of a call: [raised |-> FALSE, value |-> list] or
\* [raised |-> TRUE, value |-> <<>>].
match_transforms(dwi_files, transforms, b0_indices) ==
    LET num_dwis == Len(dwi_files)
        num_transforms == Len(transforms)
    IN  IF num_dwis = num_transforms
        THEN [raised |-> FALSE, value |-> transforms]
        ELSE IF ~(Len(transforms) = Len(b0_indices))
        THEN [raised |-> TRUE, value |-> <<>>]
        ELSE [raised |-> FALSE,
              value |-> nearest_affines(num_dwis, transforms, b0_indices)]

(***************************************************************************)
(* MatchTransforms interface (gradients.py 28-46)                          *)
(* Both file lists are mandatory InputMultiObject inputs, which are never  *)
(* empty when defined; b0_indices is a plain list and may be empty.        *)
(***************************************************************************)
MTInputs ==
    [dwi_files : {range(n) : n \in 1..MaxVols},
     transforms : {[j \in 1..m |-> j] : m \in 1..MaxTransforms},
     b0_indices : SeqsUpTo(0..(MaxVols - 1), MaxB0)]

InitMatch ==
    /\ ct = Idle /\ rpe = Idle /\ lgr = Idle /\ imm = Idle /\ gr = Idle
    /\ sdw = Idle /\ cdw = Idle /\ cfm = Idle /\ rtp = Idle /\ tns = Idle
    /\ mt \in {[pc |-> "ready", inputs |-> inp, registered |-> {}, transforms |-> <<>>] :
               inp \in MTInputs}

\* _run_interface, lines 42-46, when match_transforms returns
MatchTransforms_run ==
    /\ mt.pc = "ready"
    /\ LET r == match_transforms(mt.inputs.dwi_files, mt.inputs.transforms,
                                 mt.inputs.b0_indices)
       IN  /\ ~r.raised
           /\ mt' = [mt EXCEPT !.pc = "done",
                               !.registered = {"transforms"},
                               !.transforms = r.value]
    /\ UNCHANGED <<ct, rpe, lgr, imm, gr, sdw, cdw, cfm, rtp, tns>>

\* _run_interface, when match_transforms raises: nothing is registered
MatchTransforms_raise ==
    /\ mt.pc = "ready"
    /\ match_transforms(mt.inputs.dwi_files, mt.inputs.transforms,
                        mt.inputs.b0_indices).raised
    /\ mt' = [mt EXCEPT !.pc = "raised"]
    /\ UNCHANGED <<ct, rpe, lgr, imm, gr, sdw, cdw, cfm, rtp, tns>>

NextMatch == MatchTransforms_run \/ MatchTransforms_raise

SpecMatch == InitMatch /\ [][NextMatch]_vars

(***************************************************************************)
(* Claims about match_transforms                                           *)
(***************************************************************************)
\* distance of volume index i (0-based) to the b0 at position j
Dist(i, b0, j) == abs(i - b0[j])

\* position j is a closest b0 of volume index i, and no lower position is as close
LowestClosest(i, b0, j) ==
    /\ \A k \in 1..Len(b0) : Dist(i, b0, j) <= Dist(i, b0, k)
    /\ \A k \in 1..(j - 1) : Dist(i, b0, k) > Dist(i, b0, j)

MTNearestCase ==
    /\ mt.pc # "ready"
    /\ Len(mt.inputs.transforms) # Len(mt.inputs.dwi_files)
    /\ Len(mt.inputs.transforms) = Len(mt.inputs.b0_indices)

\* C1: with M transforms, M b0 indices and M # N, the call returns a list of
\* length N whose entry for volume index i is transforms[j], j being the
\* lowest position among those minimising |i - b0_indices[j]|.
C1_NearestIndexRule ==
    MTNearestCase =>
        /\ mt.pc = "done"
        /\ Len(mt.transforms) = Len(mt.inputs.dwi_files)
        /\ \A p \in 1..Len(mt.inputs.dwi_files) :
              \E j \in 1..Len(mt.inputs.transforms) :
                 /\ LowestClosest(p - 1, mt.inputs.b0_indices, j)
                 /\ mt.transforms[p] = mt.inputs.transforms[j]

\* a returned nearest-index binding in which some volume is equally close to
\* two b0s, both closest
C1_Witness ==
    /\ MTNearestCase
    /\ mt.pc = "done"
    /\ \E p \in 1..Len(mt.inputs.dwi_files) :
          \E j1, j2 \in 1..Len(mt.inputs.b0_indices) :
             /\ j1 < j2
             /\ LowestClosest(p - 1, mt.inputs.b0_indices, j1)
             /\ Dist(p - 1, mt.inputs.b0_indices, j2) = Dist(p - 1, mt.inputs.b0_indices, j1)
             /\ mt.inputs.b0_indices[j1] # mt.inputs.b0_indices[j2]

\* C12: whenever the number of transforms equals the number of volumes, the
\* call returns the input transform list unchanged, whatever the b0 index
\* list contains and whatever its length.
C12_EqualLengthsIdentity ==
    (mt.pc # "ready" /\ Len(mt.inputs.transforms) = Len(mt.inputs.dwi_files)) =>
        /\ mt.pc = "done"
        /\ mt.transforms = mt.inputs.transforms

\* a returned call with as many transforms as volumes and a b0 index list of
\* another length, whose nearest-index binding would differ from the input
C12_Witness ==
    /\ mt.pc = "done"
    /\ Len(mt.inputs.transforms) = Len(mt.inputs.dwi_files)
    /\ Len(mt.inputs.b0_indices) # Len(mt.inputs.transforms)
    /\ Len(mt.inputs.transforms) >= 2
    /\ mt.transforms = mt.inputs.transforms

\* C13: the call raises, binding nothing, exactly when the number of
\* transforms differs from the number of volumes and from the number of b0
\* indices; in every other case it returns a list of length N.
C13_RaisesExactlyOnMismatch ==
    mt.pc # "ready" =>
        LET N == Len(mt.inputs.dwi_files)
            M == Len(mt.inputs.transforms)
            B == Len(mt.inputs.b0_indices)
        IN  /\ mt.pc = "raised" <=> (M # N /\ M # B)
            /\ mt.pc = "raised" => (mt.registered = {} /\ mt.transforms = <<>>)
            /\ mt.pc = "done" => (mt.registered = {"transforms"} /\ Len(mt.transforms) = N)

\* a raised call with more transforms than b0 indices
C13_Witness ==
    /\ mt.pc = "raised"
    /\ Len(mt.inputs.transforms) > Len(mt.inputs.b0_indices)
    /\ Len(mt.inputs.transforms) # Len(mt.inputs.dwi_files)
    /\ mt.registered = {}

(***************************************************************************)
(* ComposeTransforms (gradients.py 73-210)                                 *)
(***************************************************************************)
\* transform files of the inputs; nii says whether the path contains '.nii'
Xfm(stage, k, nii) == [stage |-> stage, k |-> k, nii |-> nii]

\* an InputMultiObject that was not set (or set to an empty list) is Undefined
isdefined(list) == Len(list) > 0

\* strictly increasing lists over 0..n-1 of length at most 2, as SplitDWIs
\* (np.flatnonzero) produces them
B0Lists(n) ==
    {<<>>} \cup {<<a>> : a \in 0..(n - 1)}
           \cup {<<a, b>> : a \in 0..(n - 1), b \in 0..(n - 1)}

\* the value num_threads holds after lines 183-184 when no bound is requested
NoneThreads == 0

CTInputs ==
    UNION {
      [dwi_files : {[p \in 1..n |-> [dwi |-> p]]},
       original_b0_indices : {b \in B0Lists(n) : Len(b) < 2 \/ b[1] < b[2]},
       hmc_to_ref_affines : {[j \in 1..m |-> Xfm("hmc", j, FALSE)] : m \in {1, 2, n}},
       fieldwarps : {[j \in 1..w |-> Xfm("fieldwarp", j, TRUE)] : w \in {0, 1, n, n + 1}},
       unwarped_dwi_ref_to_t1w_affine : {Xfm("b0 to t1", 1, FALSE)},
       t1_2_mni_forward_transform :
           {<<>>, <<Xfm("mni", 1, FALSE)>>, <<Xfm("mni", 1, FALSE), Xfm("mni", 2, TRUE)>>},
       num_threads : (-1)..CTMaxThreads,
       save_cmd : BOOLEAN] : n \in 1..CTMaxVols}

\* xs[::-1] with the elements kept in place
keep_order(xs) == xs

\* line 149: image_transforms[::-1]
reversed(xs) == [k \in 1..Len(xs) |-> xs[Len(xs) + 1 - k]]

\* [x] * n
repeat(x, n) == [p \in 1..n |-> x]

\* lines 119-131: the stage the fieldwarps contribute (a list of 0 or 1 lists)
sdc_stage(sdc_unwarp, num_dwis) ==
    IF isdefined(sdc_unwarp)
    THEN IF Len(sdc_unwarp) = num_dwis THEN <<sdc_unwarp>>
         ELSE IF Len(sdc_unwarp) = 1 THEN <<repeat(sdc_unwarp[1], num_dwis)>>
         ELSE <<>>
    ELSE <<>>

\* lines 137-143: the stages of the template transform (assert len == 2 is
\* checked by compose_prepare)
mni_stages(mni_xform, num_dwis) ==
    IF isdefined(mni_xform) /\ Len(mni_xform) = 2
    THEN <<repeat(mni_xform[1], num_dwis), repeat(mni_xform[2], num_dwis)>>
    ELSE <<>>

\* lines 120-143: image_transforms in application order
image_transforms(inp, dwi_hmc_affines) ==
    LET num_dwis == Len(inp.dwi_files)
    IN  <<dwi_hmc_affines>>
        \o sdc_stage(inp.fieldwarps, num_dwis)
        \o <<repeat(inp.unwarped_dwi_ref_to_t1w_affine, num_dwis)>>
        \o mni_stages(inp.t1_2_mni_forward_transform, num_dwis)

\* lines 151-154: one chain per input file
xfms_list(stages, num_dwis) ==
    [image_num \in 1..num_dwis |-> [s \in 1..Len(stages) |-> stages[s][image_num]]]

\* lines 112-184 up to the first raise: "Exception" (match_transforms),
\* "AssertionError" (lines 140, 145, 179) or "none"
compose_prepare(inp) ==
    LET num_dwis == Len(inp.dwi_files)
        m == match_transforms(inp.dwi_files, inp.hmc_to_ref_affines,
                              inp.original_b0_indices)
        mni_xform == inp.t1_2_mni_forward_transform
        stages == image_transforms(inp, m.value)
        lists == xfms_list(reversed(stages), num_dwis)
    IN  IF m.raised THEN [error |-> "Exception", xfms_list |-> <<>>]
        ELSE IF isdefined(mni_xform) /\ ~(Len(mni_xform) = 2)
        THEN [error |-> "AssertionError", xfms_list |-> <<>>]
        ELSE IF ~(\A s \in 1..Len(stages) : Len(stages[s]) = Len(stages[1]))
        THEN [error |-> "AssertionError", xfms_list |-> <<>>]
        ELSE IF ~(Len(lists) = num_dwis)
        THEN [error |-> "AssertionError", xfms_list |-> <<>>]
        ELSE [error |-> "none", xfms_list |-> lists]

\* lines 183-184
effective_threads(num_threads) == IF num_threads < 1 THEN NoneThreads ELSE num_threads

\* every job may run at once
no_worker_limit(c) == Len(c.inputs.dwi_files)

\* How many per-volume jobs can be in progress: one in the list comprehension
\* of lines 187-190, max_workers in the pool of line 193, and the pool's own
\* default (c.default_workers, chosen by the library) when max_workers is None.
worker_limit(c) ==
    IF c.num_threads = 1 THEN 1
    ELSE IF c.num_threads = NoneThreads THEN c.default_workers
    ELSE c.num_threads

\* lines 362-387: what _compose_tfms returns for one (in_file, in_xfm, .., i, ..)
compose_tfms(in_file, in_xform, index) ==
    [out_file |-> [in_file |-> in_file, in_xform |-> in_xform, index |-> index],
     affine_file |-> [in_file |-> in_file,
                      affines |-> SelectSeq(in_xform, LAMBDA t : ~t.nii),
                      index |-> index]]

\* the results listed in the order the jobs completed
results_by_completion(c) == [k \in 1..Len(c.completed) |-> c.result[c.completed[k]]]

\* lines 187-197: out_files, one entry per input in input order (a list
\* comprehension, or list(pool.map(...)))
out_files(c) == [p \in 1..Len(c.inputs.dwi_files) |-> c.result[p]]

JobsIn(c, status) == {p \in 1..Len(c.inputs.dwi_files) : c.job[p] = status}

InitCompose ==
    /\ mt = Idle /\ rpe = Idle /\ lgr = Idle /\ imm = Idle /\ gr = Idle
    /\ sdw = Idle /\ cdw = Idle /\ cfm = Idle /\ rtp = Idle /\ tns = Idle
    /\ \E inp \in CTInputs :
       \E dflt \in (IF inp.num_threads < 1 THEN 1..CTMaxThreads ELSE {1}) :
          ct = [pc |-> "start", inputs |-> inp, error |-> "none",
                default_workers |-> dflt,
                xfms_list |-> <<>>, tmp_folder |-> "none", num_threads |-> inp.num_threads,
                job |-> [p \in 1..Len(inp.dwi_files) |-> "pending"],
                started |-> <<>>, completed |-> <<>>, result |-> <<>>,
                registered |-> {}, transform_lists |-> <<>>, out_warps |-> <<>>,
                out_affines |-> <<>>, log_cmdline |-> <<>>]

\* lines 112-184: build the chains, create the temporary folder, register
\* transform_lists; or raise before any of it
ComposeTransforms_prepare ==
    /\ ct.pc = "start"
    /\ LET r == compose_prepare(ct.inputs)
       IN  ct' = IF r.error # "none"
                 THEN [ct EXCEPT !.pc = "raised", !.error = r.error]
                 ELSE [ct EXCEPT !.pc = "run",
                                 !.xfms_list = r.xfms_list,
                                 !.tmp_folder = "exists",
                                 !.registered = {"transform_lists"},
                                 !.transform_lists = r.xfms_list,
                                 !.num_threads = effective_threads(ct.inputs.num_threads)]
    /\ UNCHANGED <<mt, rpe, lgr, imm, gr, sdw, cdw, cfm, rtp, tns>>

\* a per-volume job starts: jobs are taken in input order, while fewer than
\* worker_limit are in progress
ComposeTransforms_start_job(p) ==
    /\ ct.pc = "run"
    /\ p \in DOMAIN ct.job
    /\ ct.job[p] = "pending"
    /\ \A q \in 1..(p - 1) : ct.job[q] # "pending"
    /\ Cardinality(JobsIn(ct, "running")) < worker_limit(ct)
    /\ ct' = [ct EXCEPT !.job[p] = "running", !.started = Append(@, p)]
    /\ UNCHANGED <<mt, rpe, lgr, imm, gr, sdw, cdw, cfm, rtp, tns>>

\* _compose_tfms returns for volume p
ComposeTransforms_finish_job(p) ==
    /\ ct.pc \in {"run", "draining"}
    /\ p \in DOMAIN ct.job
    /\ ct.job[p] = "running"
    /\ ct' = [ct EXCEPT !.job[p] = "done",
                        !.completed = Append(@, p),
                        !.result = (p :> compose_tfms(ct.inputs.dwi_files[p],
                                                      ct.xfms_list[p], p - 1)) @@ @]
    /\ UNCHANGED <<mt, rpe, lgr, imm, gr, sdw, cdw, cfm, rtp, tns>>

\* _compose_tfms raises for volume p (the resampling tool fails, or line 397):
\* in the list comprehension the step is left at once, in the pool the
\* exception waits in the job's future
ComposeTransforms_fail_job(p) ==
    /\ ct.pc \in {"run", "draining"}
    /\ p \in DOMAIN ct.job
    /\ ct.job[p] = "running"
    /\ ct' = IF ct.num_threads = 1
             THEN [ct EXCEPT !.job[p] = "failed", !.pc = "raised", !.error = "ToolFailure"]
             ELSE [ct EXCEPT !.job[p] = "failed"]
    /\ UNCHANGED <<mt, rpe, lgr, imm, gr, sdw, cdw, cfm, rtp, tns>>

\* list(pool.map(..)) reaches, in input order, a future holding an exception:
\* the jobs not yet started are cancelled, and leaving the with block waits
\* for those in progress
ComposeTransforms_pool_abort ==
    /\ ct.pc = "run"
    /\ \E p \in JobsIn(ct, "failed") : \A q \in 1..(p - 1) : ct.job[q] = "done"
    /\ ct' = [ct EXCEPT !.pc = "draining",
                        !.job = [p \in DOMAIN ct.job |->
                                    IF ct.job[p] = "pending" THEN "cancelled" ELSE ct.job[p]]]
    /\ UNCHANGED <<mt, rpe, lgr, imm, gr, sdw, cdw, cfm, rtp, tns>>

\* the exception leaves _run_interface with the volumes finished so far
\* registered as outputs
ComposeTransforms_pool_raise_partial ==
    /\ ct.pc = "draining"
    /\ JobsIn(ct, "running") = {}
    /\ ct' = [ct EXCEPT !.pc = "raised", !.error = "ToolFailure",
                        !.registered = @ \cup {"out_warps", "out_affines"}]
    /\ UNCHANGED <<mt, rpe, lgr, imm, gr, sdw, cdw, cfm, rtp, tns>>

\* the pool has shut down and the exception leaves _run_interface
ComposeTransforms_pool_raise ==
    /\ ct.pc = "draining"
    /\ JobsIn(ct, "running") = {}
    /\ ct' = [ct EXCEPT !.pc = "raised", !.error = "ToolFailure"]
    /\ UNCHANGED <<mt, rpe, lgr, imm, gr, sdw, cdw, cfm, rtp, tns>>

\* lines 198-210: every job returned; clean up, register the outputs
ComposeTransforms_collect ==
    /\ ct.pc = "run"
    /\ \A p \in DOMAIN ct.job : ct.job[p] = "done"
    /\ LET files == out_files(ct)
       IN  ct' = [ct EXCEPT !.pc = "done",
                            !.tmp_folder = "removed",
                            !.out_warps = [p \in DOMAIN files |-> files[p].out_file],
                            !.out_affines = [p \in DOMAIN files |-> files[p].affine_file],
                            !.log_cmdline = IF ct.inputs.save_cmd
                                            THEN [p \in DOMAIN files |-> files[p]]
                                            ELSE <<>>,
                            !.registered = @ \cup {"out_warps", "out_affines"}
                                             \cup (IF ct.inputs.save_cmd
                                                   THEN {"log_cmdline"} ELSE {})]
    /\ UNCHANGED <<mt, rpe, lgr, imm, gr, sdw, cdw, cfm, rtp, tns>>

\* line 176: the TemporaryDirectory object of an aborted step is finalized
\* (garbage collection, at the latest interpreter exit) some time after the
\* exception has left _run_interface; only then is the folder removed
ComposeTransforms_tmp_folder_finalized ==
    /\ ct.pc = "raised"
    /\ ct.tmp_folder = "exists"
    /\ ct' = [ct EXCEPT !.tmp_folder = "removed"]
    /\ UNCHANGED <<mt, rpe, lgr, imm, gr, sdw, cdw, cfm, rtp, tns>>

NextCompose ==
    \/ ComposeTransforms_prepare
    \/ \E p \in 1..CTMaxVols : ComposeTransforms_start_job(p)
    \/ \E p \in 1..CTMaxVols : ComposeTransforms_finish_job(p)
    \/ \E p \in 1..CTMaxVols : ComposeTransforms_fail_job(p)
    \/ ComposeTransforms_pool_abort
    \/ ComposeTransforms_pool_raise
    \/ ComposeTransforms_collect
    \/ ComposeTransforms_tmp_folder_finalized

SpecCompose == InitCompose /\ [][NextCompose]_vars

(***************************************************************************)
(* Claims about ComposeTransforms                                          *)
(***************************************************************************)
CTNumDwis == Len(ct.inputs.dwi_files)

\* fieldwarps were supplied, with a count that is neither 1 nor the volume count
CTBadWarpCount ==
    /\ isdefined(ct.inputs.fieldwarps)
    /\ Len(ct.inputs.fieldwarps) # 1
    /\ Len(ct.inputs.fieldwarps) # CTNumDwis

\* C2: when fieldwarps are supplied with a count that is neither 1 nor the
\* number of volumes, the step fails with an input error (an Exception or an
\* AssertionError of the preparation) and produces no per-volume chains.
C2_BadWarpCountFails ==
    (ct.pc # "start" /\ CTBadWarpCount) =>
        /\ ct.pc = "raised"
        /\ ct.error \in {"Exception", "AssertionError"}
        /\ ct.xfms_list = <<>>
        /\ "transform_lists" \notin ct.registered

\* the chains have been built and registered
CTChainsBuilt == ct.pc # "idle" /\ "transform_lists" \in ct.registered

\* t is the motion-correction affine matched to volume position p
CTHmcMatched(p, t) ==
    IF Len(ct.inputs.hmc_to_ref_affines) = CTNumDwis
    THEN t = ct.inputs.hmc_to_ref_affines[p]
    ELSE \E j \in 1..Len(ct.inputs.hmc_to_ref_affines) :
            /\ LowestClosest(p - 1, ct.inputs.original_b0_indices, j)
            /\ t = ct.inputs.hmc_to_ref_affines[j]

\* the stages after motion correction, in application order, for position p:
\* the volume's distortion warp when warps are supplied one per volume or as a
\* single broadcast entry, the anatomical affine, and the template affine and
\* warp when supplied
CTLaterStages(p) ==
    (IF Len(ct.inputs.fieldwarps) = CTNumDwis THEN <<ct.inputs.fieldwarps[p]>>
     ELSE IF Len(ct.inputs.fieldwarps) = 1 THEN <<ct.inputs.fieldwarps[1]>>
     ELSE <<>>)
    \o <<ct.inputs.unwarped_dwi_ref_to_t1w_affine>>
    \o (IF isdefined(ct.inputs.t1_2_mni_forward_transform)
        THEN <<ct.inputs.t1_2_mni_forward_transform[1],
               ct.inputs.t1_2_mni_forward_transform[2]>>
        ELSE <<>>)

\* C7: every volume's chain is the reverse of the application-order stage list
\* [matched motion-correction affine, distortion warp (if supplied per volume
\* or as one broadcast entry), anatomical affine, template affine, template
\* warp (if supplied)]; all chains have the same length.
C7_ChainIsReversedStages ==
    CTChainsBuilt =>
        /\ Len(ct.transform_lists) = CTNumDwis
        /\ \A p \in 1..CTNumDwis :
              LET chain == ct.transform_lists[p]
                  later == CTLaterStages(p)
              IN  /\ Len(chain) = Len(later) + 1
                  /\ CTHmcMatched(p, chain[Len(chain)])
                  /\ \A k \in 1..Len(later) : chain[k] = later[Len(later) + 1 - k]
                  /\ Len(chain) = Len(ct.transform_lists[1])

\* chains built for several volumes from fewer motion-correction affines, with
\* per-volume warps and a template transform: five stages, template warp first
C7_Witness ==
    /\ CTChainsBuilt
    /\ CTNumDwis >= 2
    /\ Len(ct.inputs.hmc_to_ref_affines) # CTNumDwis
    /\ Len(ct.inputs.fieldwarps) = CTNumDwis
    /\ isdefined(ct.inputs.t1_2_mni_forward_transform)
    /\ Len(ct.transform_lists[CTNumDwis]) = 5
    /\ ct.transform_lists[CTNumDwis][1] = ct.inputs.t1_2_mni_forward_transform[2]
    /\ ct.transform_lists[CTNumDwis][4] = ct.inputs.fieldwarps[CTNumDwis]

\* C5: when the step completes, the three output lists have one entry per
\* volume, and out_warps[i] and out_affines[i] are the results computed from
\* dwi_files[i] with the chain transform_lists[i], whatever the thread count
\* and the order in which the jobs completed.
C5_OutputsInVolumeOrder ==
    ct.pc = "done" =>
        /\ Len(ct.out_warps) = CTNumDwis
        /\ Len(ct.out_affines) = CTNumDwis
        /\ Len(ct.transform_lists) = CTNumDwis
        /\ \A p \in 1..CTNumDwis :
              /\ ct.out_warps[p] = [in_file |-> ct.inputs.dwi_files[p],
                                    in_xform |-> ct.transform_lists[p],
                                    index |-> p - 1]
              /\ ct.out_affines[p].in_file = ct.inputs.dwi_files[p]
              /\ ct.out_affines[p].index = p - 1
              /\ ct.out_affines[p].affines =
                     SelectSeq(ct.transform_lists[p], LAMBDA t : ~t.nii)

\* a completed step whose jobs did not complete in volume order
C5_Witness ==
    /\ ct.pc = "done"
    /\ CTNumDwis >= 2
    /\ ct.completed[1] # 1
    /\ ct.out_warps[1].in_file = ct.inputs.dwi_files[1]

\* how often position p occurs in the list s
Occurrences(s, p) == Cardinality({k \in 1..Len(s) : s[k] = p})

\* C6: with thread count 1 at most one job is in progress, jobs start in
\* volume order and only after every earlier job returned; with thread count
\* k > 1 at most k jobs are in progress; with a thread count below 1 the pool
\* is given no bound (None); when the step completes every volume was started
\* and completed exactly once.
C6_ThreadCountSemantics ==
    ct.pc \in {"run", "draining", "raised", "done"} =>
        /\ ct.inputs.num_threads = 1 =>
              /\ Cardinality(JobsIn(ct, "running")) <= 1
              /\ \A p \in JobsIn(ct, "running") : \A q \in 1..(p - 1) : ct.job[q] = "done"
        /\ ct.started = [k \in 1..Len(ct.started) |-> k]
        /\ ct.inputs.num_threads > 1 =>
              Cardinality(JobsIn(ct, "running")) <= ct.inputs.num_threads
        /\ (ct.inputs.num_threads < 1 /\ CTChainsBuilt) => ct.num_threads = NoneThreads
        /\ ct.pc = "done" =>
              \A p \in 1..CTNumDwis :
                 Occurrences(ct.started, p) = 1 /\ Occurrences(ct.completed, p) = 1

\* as many jobs in progress as the thread count allows, and one still waiting
C6_Witness ==
    /\ ct.pc = "run"
    /\ ct.inputs.num_threads > 1
    /\ Cardinality(JobsIn(ct, "running")) = ct.inputs.num_threads
    /\ JobsIn(ct, "pending") # {}

\* C18: the temporary working directory created before the per-volume work
\* has been removed whenever the step has been left, also when a per-volume
\* job failed.
C18_TmpFolderRemovedOnEveryExit ==
    ct.pc \in {"done", "raised"} => ct.tmp_folder # "exists"

(***************************************************************************)
(* ConcatRPESplits (images.py 73-174)                                      *)
(***************************************************************************)
\* a file of one of the two series
SeriesFile(series, kind, k) == [series |-> series, kind |-> kind, k |-> k]

\* an optional File input: Undefined when not set
UndefinedFile == [defined |-> FALSE]
DefinedFile(f) == [defined |-> TRUE, file |-> f]

\* the inputs that one series contributes: num volumes split as by SplitDWIs,
\* a b0 index list, and motion-correction affines either one per b0 or one
\* per volume (an empty OutputMultiObject is Undefined, so never empty here)
RPESeriesInputs(series, num) ==
    [dwi : {[k \in 1..num |-> SeriesFile(series, "dwi", k - 1)]},
     bvec : {[k \in 1..num |-> SeriesFile(series, "bvec", k - 1)]},
     bval : {[k \in 1..num |-> SeriesFile(series, "bval", k - 1)]},
     b0_indices : B0Lists(num),
     num_hmc : 1..num,
     per_b0 : BOOLEAN,
     template_to_ref_affine : {SeriesFile(series, "to_ref_affine", 0)},
     template_to_ref_warp : {UndefinedFile, DefinedFile(SeriesFile(series, "to_ref_warp", 0))}]

\* the b0 images and the motion-correction affines that go with a series
RPESeries(s) ==
    [dwi |-> s.dwi, bvec |-> s.bvec, bval |-> s.bval,
     b0_indices |-> s.b0_indices,
     b0_images |-> [k \in 1..Len(s.b0_indices) |-> s.dwi[s.b0_indices[k] + 1]],
     hmc_affines |-> [k \in 1..s.num_hmc |-> SeriesFile(s.dwi[1].series, "hmc", k - 1)],
     template_to_ref_affine |-> s.template_to_ref_affine,
     template_to_ref_warp |-> s.template_to_ref_warp]

RPESeriesSet(series) ==
    {RPESeries(s) :
        s \in {x \in UNION {RPESeriesInputs(series, num) : num \in 1..RPEMaxVols} :
                  /\ x.per_b0 => x.num_hmc = Len(x.b0_indices)
                  /\ ~x.per_b0 => x.num_hmc = Len(x.dwi)}}

\* itk.compose_affines(reference_image, affine_list, output_file): the
\* composite affine file written for the list at the reference grid
itk_compose_affines(reference_image, affine_list, output_file) ==
    [reference |-> reference_image, affines |-> affine_list, output |-> output_file]

\* line 151 with the offset left out
keep_minus_index(num_plus, idx) == idx

\* line 151: num_plus + idx
remap_minus_index(num_plus, idx) == num_plus + idx

\* lines 167-171 with the plus series' to-reference affine
combine_minus_with_plus_ref(inp, affine_num) ==
    itk_compose_affines(inp.b0_ref_image,
                        <<inp.plus.template_to_ref_affine, inp.minus.hmc_affines[affine_num + 1]>>,
                        <<"combined_hmc_affine_minus", affine_num>>)

\* lines 161-166: the combined affine of plus affine number affine_num (0-based)
combine_plus(inp, affine_num) ==
    itk_compose_affines(inp.b0_ref_image,
                        <<inp.plus.template_to_ref_affine, inp.plus.hmc_affines[affine_num + 1]>>,
                        <<"combined_hmc_affine_plus", affine_num>>)

\* lines 167-171: the combined affine of minus affine number affine_num
combine_minus(inp, affine_num) ==
    itk_compose_affines(inp.b0_ref_image,
                        <<inp.minus.template_to_ref_affine, inp.minus.hmc_affines[affine_num + 1]>>,
                        <<"combined_hmc_affine_minus", affine_num>>)

InitRPE ==
    /\ mt = Idle /\ ct = Idle /\ lgr = Idle /\ imm = Idle /\ gr = Idle
    /\ sdw = Idle /\ cdw = Idle /\ cfm = Idle /\ rtp = Idle /\ tns = Idle
    /\ \E plus \in RPESeriesSet("plus"), minus \in RPESeriesSet("minus") :
          rpe = [pc |-> "start",
                 inputs |-> [plus |-> plus, minus |-> minus,
                             b0_ref_image |-> "b0_ref_image",
                             b0_ref_mask |-> "b0_ref_mask"],
                 registered |-> {},
                 dwi_files |-> <<>>, bval_files |-> <<>>, bvec_files |-> <<>>,
                 b0_images |-> <<>>, b0_indices |-> <<>>, original_grouping |-> <<>>,
                 to_dwi_ref_warps |-> <<>>, to_dwi_ref_affines |-> <<>>,
                 combined_affines |-> <<>>, affine_num |-> 0]

\* lines 123-160: the reference image and mask, the unified lists, the b0
\* indices, the provenance tags and (both warps given) the warp list
ConcatRPESplits_register_lists ==
    /\ rpe.pc = "start"
    /\ LET plus == rpe.inputs.plus
           minus == rpe.inputs.minus
           num_plus == Len(plus.dwi)
           num_minus == Len(minus.dwi)
           both_warps == plus.template_to_ref_warp.defined /\ minus.template_to_ref_warp.defined
       IN  rpe' = [rpe EXCEPT
                     !.pc = "plus",
                     !.registered = {"b0_ref_image", "b0_ref_mask", "dwi_files", "bval_files",
                                     "bvec_files", "b0_images", "b0_indices",
                                     "original_grouping"}
                                    \cup (IF both_warps THEN {"to_dwi_ref_warps"} ELSE {}),
                     !.dwi_files = plus.dwi \o minus.dwi,
                     !.bval_files = plus.bval \o minus.bval,
                     !.bvec_files = plus.bvec \o minus.bvec,
                     !.b0_images = plus.b0_images \o minus.b0_images,
                     !.b0_indices = plus.b0_indices \o
                                    [k \in 1..Len(minus.b0_indices) |->
                                        remap_minus_index(num_plus, minus.b0_indices[k])],
                     !.original_grouping = repeat("plus", num_plus) \o repeat("minus", num_minus),
                     !.to_dwi_ref_warps =
                         IF both_warps
                         THEN repeat(plus.template_to_ref_warp.file, num_plus)
                              \o repeat(minus.template_to_ref_warp.file, num_minus)
                         ELSE <<>>,
                     !.combined_affines = <<>>,
                     !.affine_num = 0]
    /\ UNCHANGED <<mt, ct, lgr, imm, gr, sdw, cdw, cfm, rtp, tns>>

\* lines 161-166: one pass of the loop over plus_hmc_affines
ConcatRPESplits_combine_plus ==
    /\ rpe.pc = "plus"
    /\ rpe.affine_num < Len(rpe.inputs.plus.hmc_affines)
    /\ rpe' = [rpe EXCEPT !.combined_affines = Append(@, combine_plus(rpe.inputs, rpe.affine_num)),
                          !.affine_num = @ + 1]
    /\ UNCHANGED <<mt, ct, lgr, imm, gr, sdw, cdw, cfm, rtp, tns>>

\* the plus loop is exhausted; the minus loop starts counting from 0
ConcatRPESplits_plus_done ==
    /\ rpe.pc = "plus"
    /\ rpe.affine_num = Len(rpe.inputs.plus.hmc_affines)
    /\ rpe' = [rpe EXCEPT !.pc = "minus", !.affine_num = 0]
    /\ UNCHANGED <<mt, ct, lgr, imm, gr, sdw, cdw, cfm, rtp, tns>>

\* lines 167-171: one pass of the loop over minus_hmc_affines
ConcatRPESplits_combine_minus ==
    /\ rpe.pc = "minus"
    /\ rpe.affine_num < Len(rpe.inputs.minus.hmc_affines)
    /\ rpe' = [rpe EXCEPT !.combined_affines = Append(@, combine_minus(rpe.inputs, rpe.affine_num)),
                          !.affine_num = @ + 1]
    /\ UNCHANGED <<mt, ct, lgr, imm, gr, sdw, cdw, cfm, rtp, tns>>

\* compose_affines fails (its external tool fails): the exception leaves
\* _run_interface
ConcatRPESplits_combine_fails ==
    /\ \/ rpe.pc = "plus" /\ rpe.affine_num < Len(rpe.inputs.plus.hmc_affines)
       \/ rpe.pc = "minus" /\ rpe.affine_num < Len(rpe.inputs.minus.hmc_affines)
    /\ rpe' = [rpe EXCEPT !.pc = "raised"]
    /\ UNCHANGED <<mt, ct, lgr, imm, gr, sdw, cdw, cfm, rtp, tns>>

\* lines 172-174
ConcatRPESplits_register_affines ==
    /\ rpe.pc = "minus"
    /\ rpe.affine_num = Len(rpe.inputs.minus.hmc_affines)
    /\ rpe' = [rpe EXCEPT !.pc = "done",
                          !.registered = @ \cup {"to_dwi_ref_affines"},
                          !.to_dwi_ref_affines = rpe.combined_affines]
    /\ UNCHANGED <<mt, ct, lgr, imm, gr, sdw, cdw, cfm, rtp, tns>>

NextRPE ==
    \/ ConcatRPESplits_register_lists
    \/ ConcatRPESplits_combine_plus
    \/ ConcatRPESplits_plus_done
    \/ ConcatRPESplits_combine_minus
    \/ ConcatRPESplits_combine_fails
    \/ ConcatRPESplits_register_affines

SpecRPE == InitRPE /\ [][NextRPE]_vars

(***************************************************************************)
(* Claims about ConcatRPESplits                                            *)
(***************************************************************************)
RPENumPlus == Len(rpe.inputs.plus.dwi)
RPENumMinus == Len(rpe.inputs.minus.dwi)

\* xs is the list ps followed by the list ms
IsConcat(xs, ps, ms) ==
    /\ Len(xs) = Len(ps) + Len(ms)
    /\ \A k \in 1..Len(ps) : xs[k] = ps[k]
    /\ \A k \in 1..Len(ms) : xs[Len(ps) + k] = ms[k]

StrictlyIncreasing(xs) == \A k \in 1..(Len(xs) - 1) : xs[k] < xs[k + 1]
Within(xs, n) == \A k \in 1..Len(xs) : 0 <= xs[k] /\ xs[k] < n

\* C3 as stated: to_dwi_ref_affines has exactly P + Q entries, the plus
\* entries first, also when the motion-correction affine lists are per-b0.
C3_OneAffinePerVolume ==
    rpe.pc = "done" =>
        /\ Len(rpe.to_dwi_ref_affines) = RPENumPlus + RPENumMinus
        /\ \A k \in 1..RPENumPlus :
              rpe.to_dwi_ref_affines[k].affines[1] = rpe.inputs.plus.template_to_ref_affine
        /\ \A k \in 1..RPENumMinus :
              rpe.to_dwi_ref_affines[RPENumPlus + k].affines[1] =
                  rpe.inputs.minus.template_to_ref_affine

\* C3 amended: to_dwi_ref_affines has one entry per supplied motion-correction
\* affine, len(hmc_affines_plus) + len(hmc_affines_minus) in all; entry k is
\* the k-th affine combined with its own series' to-reference affine at the
\* reference b0 grid, all plus entries before all minus entries.  It has
\* P + Q entries, entry k belonging to unified volume k, when each affine
\* list holds one affine per volume of its series.
C3_OneAffinePerHmcAffine ==
    rpe.pc = "done" =>
        LET hp == rpe.inputs.plus.hmc_affines
            hm == rpe.inputs.minus.hmc_affines
            out == rpe.to_dwi_ref_affines
        IN  /\ Len(out) = Len(hp) + Len(hm)
            /\ \A k \in 1..Len(hp) :
                  /\ out[k].affines = <<rpe.inputs.plus.template_to_ref_affine, hp[k]>>
                  /\ out[k].reference = rpe.inputs.b0_ref_image
            /\ \A k \in 1..Len(hm) :
                  /\ out[Len(hp) + k].affines = <<rpe.inputs.minus.template_to_ref_affine, hm[k]>>
                  /\ out[Len(hp) + k].reference = rpe.inputs.b0_ref_image
            /\ (Len(hp) = RPENumPlus /\ Len(hm) = RPENumMinus) =>
                  Len(out) = RPENumPlus + RPENumMinus

\* a completed step whose affine lists are per-b0 and shorter than the series
C3_Witness ==
    /\ rpe.pc = "done"
    /\ Len(rpe.inputs.plus.hmc_affines) = Len(rpe.inputs.plus.b0_indices)
    /\ Len(rpe.inputs.minus.hmc_affines) = Len(rpe.inputs.minus.b0_indices)
    /\ Len(rpe.inputs.plus.hmc_affines) < RPENumPlus
    /\ Len(rpe.inputs.minus.hmc_affines) < RPENumMinus
    /\ Len(rpe.to_dwi_ref_affines) < RPENumPlus + RPENumMinus

\* C8: the unified file lists are the plus list followed by the minus list
\* (P + Q entries), the unified b0 indices are the plus indices followed by
\* each minus index plus P (strictly increasing and within [0, P + Q) when
\* each input list is strictly increasing and within its series), and the
\* provenance list is P times "plus" followed by Q times "minus".
C8_UnifiedIndexing ==
    rpe.pc \in {"plus", "minus", "raised", "done"} =>
        LET plus == rpe.inputs.plus
            minus == rpe.inputs.minus
        IN  /\ IsConcat(rpe.dwi_files, plus.dwi, minus.dwi)
            /\ IsConcat(rpe.bval_files, plus.bval, minus.bval)
            /\ IsConcat(rpe.bvec_files, plus.bvec, minus.bvec)
            /\ IsConcat(rpe.b0_images, plus.b0_images, minus.b0_images)
            /\ Len(rpe.dwi_files) = RPENumPlus + RPENumMinus
            /\ Len(rpe.bval_files) = RPENumPlus + RPENumMinus
            /\ Len(rpe.bvec_files) = RPENumPlus + RPENumMinus
            /\ Len(rpe.b0_indices) = Len(plus.b0_indices) + Len(minus.b0_indices)
            /\ \A k \in 1..Len(plus.b0_indices) : rpe.b0_indices[k] = plus.b0_indices[k]
            /\ \A k \in 1..Len(minus.b0_indices) :
                  rpe.b0_indices[Len(plus.b0_indices) + k] = minus.b0_indices[k] + RPENumPlus
            /\ (/\ StrictlyIncreasing(plus.b0_indices) /\ Within(plus.b0_indices, RPENumPlus)
                /\ StrictlyIncreasing(minus.b0_indices) /\ Within(minus.b0_indices, RPENumMinus))
               => (/\ StrictlyIncreasing(rpe.b0_indices)
                   /\ Within(rpe.b0_indices, RPENumPlus + RPENumMinus))
            /\ Len(rpe.original_grouping) = RPENumPlus + RPENumMinus
            /\ \A k \in 1..RPENumPlus : rpe.original_grouping[k] = "plus"
            /\ \A k \in 1..RPENumMinus : rpe.original_grouping[RPENumPlus + k] = "minus"

\* unified lists of two series that each have two b0s in increasing order
C8_Witness ==
    /\ rpe.pc = "plus"
    /\ RPENumPlus >= 2 /\ RPENumMinus >= 2
    /\ Len(rpe.inputs.plus.b0_indices) = 2 /\ StrictlyIncreasing(rpe.inputs.plus.b0_indices)
    /\ Len(rpe.inputs.minus.b0_indices) = 2 /\ StrictlyIncreasing(rpe.inputs.minus.b0_indices)
    /\ rpe.b0_indices[3] = RPENumPlus + rpe.inputs.minus.b0_indices[1]
    /\ StrictlyIncreasing(rpe.b0_indices)

(***************************************************************************)
(* Gradient vectors (gradients.py 301-359, 481-513)                        *)
(***************************************************************************)
\* the b-vectors a per-volume bvec file may hold in the model
BvecValues == {<<0, 0, 0>>, <<1, 0, 0>>, <<1, -1, 0>>}

\* all lists over S of length 1..n
ListsUpTo(S, n) == UNION {[1..k -> S] : k \in 1..n}

\* (vec**2).sum()
sum_of_squares(vec) == vec[1] * vec[1] + vec[2] * vec[2] + vec[3] * vec[3]

\* lines 301-307: the values of the bval files in list order; a single value
\* squeezes to a 0-d array, which np.savetxt does not write
concatenate_bvals(bval_list) ==
    IF Len(bval_list) = 1
    THEN [raised |-> TRUE, final_bvals |-> <<>>]
    ELSE [raised |-> FALSE, final_bvals |-> [k \in 1..Len(bval_list) |-> bval_list[k]]]

\* lines 310-315: one row per bvec file (each file holds one 3-vector)
concatenate_bvecs(input_files) == [k \in 1..Len(input_files) |-> input_files[k]]

\* zip(a, b) stops at the shorter list
zip_len(a, b) == IF Len(a) < Len(b) THEN Len(a) ELSE Len(b)

(***************************************************************************)
(* LocalGradientRotation (gradients.py 251-276, 401-513)                   *)
(***************************************************************************)
LGRInputs ==
    [bvec_files : ListsUpTo(BvecValues, LGRMaxVols),
     warp_transforms : {[k \in 1..n |-> [warp |-> k]] : n \in 1..LGRMaxVols},
     mask_image : {"mask_image"}]

\* line 492: the per-volume vector field file of volume vecnum (0-based)
rotated_fname(vecnum) == [vecnum |-> vecnum, name |-> "rotated.nii.gz"]

InitLocal ==
    /\ mt = Idle /\ ct = Idle /\ rpe = Idle /\ imm = Idle /\ gr = Idle
    /\ sdw = Idle /\ cdw = Idle /\ cfm = Idle /\ rtp = Idle /\ tns = Idle
    /\ \E inp \in LGRInputs :
          lgr = [pc |-> "start", inputs |-> inp, registered |-> {}, error |-> "none",
                 original_bvecs |-> <<>>, vecnum |-> 0,
                 rotated_vec_files |-> <<>>, commands |-> <<>>,
                 files |-> {}, tool_failed |-> FALSE,
                 stacked |-> <<>>, log |-> <<>>]

\* _run_interface lines 266-270 and local_bvec_rotation lines 483-489:
\* local_bvecs is registered before the file exists
LocalGradientRotation_begin ==
    /\ lgr.pc = "start"
    /\ lgr' = [lgr EXCEPT !.pc = "loop",
                          !.registered = {"local_bvecs"},
                          !.original_bvecs = concatenate_bvecs(lgr.inputs.bvec_files),
                          !.vecnum = 0]
    /\ UNCHANGED <<mt, ct, rpe, imm, gr, sdw, cdw, cfm, rtp, tns>>

\* lines 490-498: a volume whose direction is the zero vector
local_bvec_rotation_b0 ==
    /\ lgr.pc = "loop"
    /\ lgr.vecnum < zip_len(lgr.original_bvecs, lgr.inputs.warp_transforms)
    /\ sum_of_squares(lgr.original_bvecs[lgr.vecnum + 1]) = 0
    /\ lgr' = [lgr EXCEPT !.files = @ \cup {rotated_fname(lgr.vecnum)},
                          !.rotated_vec_files = Append(@, rotated_fname(lgr.vecnum)),
                          !.commands = Append(@, [text |-> "B0: No rotation", args |-> <<>>]),
                          !.vecnum = @ + 1]
    /\ UNCHANGED <<mt, ct, rpe, imm, gr, sdw, cdw, cfm, rtp, tns>>

\* lines 500-508: create_tensor_image and reorient_tensor_image with their
\* tools succeeding; their own temporary files are removed again
local_bvec_rotation_rotate ==
    /\ lgr.pc = "loop"
    /\ lgr.vecnum < zip_len(lgr.original_bvecs, lgr.inputs.warp_transforms)
    /\ sum_of_squares(lgr.original_bvecs[lgr.vecnum + 1]) # 0
    /\ lgr' = [lgr EXCEPT !.files = @ \cup {rotated_fname(lgr.vecnum)},
                          !.rotated_vec_files = Append(@, rotated_fname(lgr.vecnum)),
                          !.commands = Append(@, [text |-> "ReorientTensorImage",
                                                  args |-> <<lgr.vecnum,
                                                             lgr.inputs.warp_transforms[lgr.vecnum + 1]>>]),
                          !.vecnum = @ + 1]
    /\ UNCHANGED <<mt, ct, rpe, imm, gr, sdw, cdw, cfm, rtp, tns>>

\* the tensor tools fail: the reoriented tensor cannot be loaded (line 443)
local_bvec_rotation_tool_fails ==
    /\ lgr.pc = "loop"
    /\ lgr.vecnum < zip_len(lgr.original_bvecs, lgr.inputs.warp_transforms)
    /\ sum_of_squares(lgr.original_bvecs[lgr.vecnum + 1]) # 0
    /\ lgr' = [lgr EXCEPT !.pc = "raised", !.error = "ToolFailure", !.tool_failed = TRUE]
    /\ UNCHANGED <<mt, ct, rpe, imm, gr, sdw, cdw, cfm, rtp, tns>>

\* line 509: img.get_data() for img in rotated_vec_files, a list of file
\* names: a str has no get_data, so the stacking raises AttributeError and
\* lines 510-513 and 273-276 are never reached
local_bvec_rotation_stack ==
    /\ lgr.pc = "loop"
    /\ lgr.vecnum = zip_len(lgr.original_bvecs, lgr.inputs.warp_transforms)
    /\ lgr' = [lgr EXCEPT !.pc = "raised", !.error = "AttributeError"]
    /\ UNCHANGED <<mt, ct, rpe, imm, gr, sdw, cdw, cfm, rtp, tns>>

NextLocal ==
    \/ LocalGradientRotation_begin
    \/ local_bvec_rotation_b0
    \/ local_bvec_rotation_rotate
    \/ local_bvec_rotation_tool_fails
    \/ local_bvec_rotation_stack

SpecLocal == InitLocal /\ [][NextLocal]_vars

(***************************************************************************)
(* Claims about LocalGradientRotation                                      *)
(***************************************************************************)
\* C4: for a non-empty list of (b-vector, warp) volumes, with every external
\* tool succeeding, the step ends normally: one stacked file holding the
\* per-volume vector fields in volume order has been written, every
\* per-volume temporary file is deleted and the command log has one record
\* per volume.
C4_CompletesWithStackedFile ==
    (/\ lgr.pc \in {"raised", "done"}
     /\ ~lgr.tool_failed
     /\ Len(lgr.inputs.bvec_files) >= 1
     /\ Len(lgr.inputs.warp_transforms) = Len(lgr.inputs.bvec_files)) =>
        /\ lgr.pc = "done"
        /\ lgr.stacked = [k \in 1..Len(lgr.inputs.bvec_files) |-> rotated_fname(k - 1)]
        /\ lgr.files = {}
        /\ Len(lgr.log) = Len(lgr.inputs.bvec_files)

(***************************************************************************)
(* GradientRotation (gradients.py 213-248, 301-359)                        *)
(***************************************************************************)
\* per-volume bval files hold one b-value each
BvalValues == {0, 1000}

GRInputs ==
    [bval_files : ListsUpTo(BvalValues, GRMaxVols),
     bvec_files : ListsUpTo(BvecValues, GRMaxVols),
     affine_transforms : {[k \in 1..n |-> [affine |-> k]] : n \in 1..GRMaxVols}]

\* the vector counts as a b0 when its components add up to zero
is_b0_by_sum(orig_vec) == orig_vec[1] + orig_vec[2] + orig_vec[3] = 0

\* line 332: (orig_vec**2).sum() == 0
is_b0(orig_vec) == sum_of_squares(orig_vec) = 0

\* lines 351-353: the command line; its file names derive from the transform
aattp_cmd(transform) == [text |-> "antsApplyTransformsToPoints", args |-> <<transform>>]

\* line 333
no_rotation_cmd == [text |-> "b0: No rotation", args |-> <<>>]

\* a direction of the output table: the vector it was computed from and the
\* transforms it was rotated by (none: the vector itself)
Direction(vec, rotation) == [vec |-> vec, rotation |-> rotation]

InitGradRot ==
    /\ mt = Idle /\ ct = Idle /\ rpe = Idle /\ lgr = Idle /\ imm = Idle
    /\ sdw = Idle /\ cdw = Idle /\ cfm = Idle /\ rtp = Idle /\ tns = Idle
    /\ \E inp \in GRInputs :
          gr = [pc |-> "start", inputs |-> inp, registered |-> {}, error |-> "none",
                bvals_file |-> <<>>, original_bvecs |-> <<>>, index |-> 0,
                aattp_rotated |-> <<>>, commands |-> <<>>, issued |-> <<>>,
                bvecs_file |-> <<>>, log |-> <<>>]

\* lines 231-236, concatenate_bvals 301-307: with a single bval file the
\* concatenation squeezes to a 0-d array, which np.savetxt rejects
GradientRotation_concatenate_bvals ==
    /\ gr.pc = "start"
    /\ LET out == concatenate_bvals(gr.inputs.bval_files)
       IN  gr' = IF out.raised
                 THEN [gr EXCEPT !.pc = "raised", !.error = "ValueError"]
                 ELSE [gr EXCEPT !.pc = "bvecs",
                                 !.bvals_file = out.final_bvals,
                                 !.registered = {"bvals"}]
    /\ UNCHANGED <<mt, ct, rpe, lgr, imm, sdw, cdw, cfm, rtp, tns>>

\* lines 238-240 and 320-321
GradientRotation_concatenate_bvecs ==
    /\ gr.pc = "bvecs"
    /\ gr' = [gr EXCEPT !.pc = "loop",
                        !.original_bvecs = concatenate_bvecs(gr.inputs.bvec_files),
                        !.index = 0]
    /\ UNCHANGED <<mt, ct, rpe, lgr, imm, sdw, cdw, cfm, rtp, tns>>

\* lines 322-325 with aattp_rotate_vec returning at line 333
aattp_rotate_vec_b0 ==
    /\ gr.pc = "loop"
    /\ gr.index < zip_len(gr.original_bvecs, gr.inputs.affine_transforms)
    /\ is_b0(gr.original_bvecs[gr.index + 1])
    /\ gr' = [gr EXCEPT !.aattp_rotated = Append(@, Direction(gr.original_bvecs[gr.index + 1], <<>>)),
                        !.commands = Append(@, no_rotation_cmd),
                        !.index = @ + 1]
    /\ UNCHANGED <<mt, ct, rpe, lgr, imm, sdw, cdw, cfm, rtp, tns>>

\* lines 322-325 with aattp_rotate_vec running the point-transform tool
aattp_rotate_vec_rotate ==
    /\ gr.pc = "loop"
    /\ gr.index < zip_len(gr.original_bvecs, gr.inputs.affine_transforms)
    /\ ~is_b0(gr.original_bvecs[gr.index + 1])
    /\ LET transform == gr.inputs.affine_transforms[gr.index + 1]
       IN  gr' = [gr EXCEPT !.issued = Append(@, [vol |-> gr.index, cmd |-> aattp_cmd(transform)]),
                            !.aattp_rotated = Append(@, Direction(gr.original_bvecs[gr.index + 1],
                                                                  <<transform>>)),
                            !.commands = Append(@, aattp_cmd(transform)),
                            !.index = @ + 1]
    /\ UNCHANGED <<mt, ct, rpe, lgr, imm, sdw, cdw, cfm, rtp, tns>>

\* the tool is run (line 355) and fails: line 356 cannot load its output
aattp_rotate_vec_tool_fails ==
    /\ gr.pc = "loop"
    /\ gr.index < zip_len(gr.original_bvecs, gr.inputs.affine_transforms)
    /\ ~is_b0(gr.original_bvecs[gr.index + 1])
    /\ LET transform == gr.inputs.affine_transforms[gr.index + 1]
       IN  gr' = [gr EXCEPT !.issued = Append(@, [vol |-> gr.index, cmd |-> aattp_cmd(transform)]),
                            !.pc = "raised", !.error = "ToolFailure"]
    /\ UNCHANGED <<mt, ct, rpe, lgr, imm, sdw, cdw, cfm, rtp, tns>>

\* lines 326-328 and 243-248: the bvec table, then the command log
GradientRotation_finish ==
    /\ gr.pc = "loop"
    /\ gr.index = zip_len(gr.original_bvecs, gr.inputs.affine_transforms)
    /\ gr' = [gr EXCEPT !.pc = "done",
                        !.bvecs_file = gr.aattp_rotated,
                        !.log = gr.commands,
                        !.registered = @ \cup {"bvecs", "log_cmdline"}]
    /\ UNCHANGED <<mt, ct, rpe, lgr, imm, sdw, cdw, cfm, rtp, tns>>

NextGradRot ==
    \/ GradientRotation_concatenate_bvals
    \/ GradientRotation_concatenate_bvecs
    \/ aattp_rotate_vec_b0
    \/ aattp_rotate_vec_rotate
    \/ aattp_rotate_vec_tool_fails
    \/ GradientRotation_finish

SpecGradRot == InitGradRot /\ [][NextGradRot]_vars

(***************************************************************************)
(* Claims about GradientRotation                                           *)
(***************************************************************************)
\* volume position p holds the zero vector
GRZeroVector(p) == gr.inputs.bvec_files[p] = <<0, 0, 0>>

\* the volumes the rotation pairs up: b-vectors that have a transform
GRNumVolumes == zip_len(gr.inputs.bvec_files, gr.inputs.affine_transforms)

\* the external commands issued for the volume with index i (0-based)
GRIssuedFor(i) == {k \in 1..Len(gr.issued) : gr.issued[k].vol = i}

\* the records of the log that are external commands
GRExternalInLog == {k \in 1..Len(gr.log) : gr.log[k].text = "antsApplyTransformsToPoints"}

C21_TableSizes ==
    gr.pc = "done" =>
        /\ Len(gr.bvecs_file) = Len(gr.inputs.bvec_files)
        /\ Len(gr.bvals_file) = Len(gr.inputs.bval_files)
        /\ Len(gr.bvecs_file) = Len(gr.bvals_file)

(***************************************************************************)
(* IntraModalMerge (images.py 196-268, 458-478)                            *)
(***************************************************************************)
\* an image file: its axis codes, the dimensions of its data (ndim) and of
\* its data with the empty ones dropped (sqdim), the suffixes of its name
ImageKinds == {<<3, 3>>, <<4, 3>>, <<4, 4>>, <<5, 3>>, <<5, 4>>, <<5, 5>>}

InputImage(k, axcodes, kind) ==
    [id |-> k, axcodes |-> axcodes, ndim |-> kind[1], sqdim |-> kind[2], suffix |-> <<>>]

IMMFileLists ==
    UNION {{[k \in 1..n |-> InputImage(k, ax[k], kd[k])] :
              ax \in [1..n -> {"LPS", "RAS"}], kd \in [1..n -> ImageKinds]} :
           n \in 1..IMMMaxFiles}

IMMInputs ==
    [in_files : IMMFileLists, hmc : BOOLEAN, zero_based_avg : BOOLEAN, to_lps : BOOLEAN]

fname_presuffix(file, suffix) == [file EXCEPT !.suffix = Append(@, suffix)]

\* lines 458-478: a copy of the file in LPS axis order
reorient(in_file) == [fname_presuffix(in_file, "_lps") EXCEPT !.axcodes = "LPS"]

\* lines 234-241: the copy with the empty dimensions dropped
squeezed(in_file) == [fname_presuffix(in_file, "_squeezed") EXCEPT !.ndim = in_file.sqdim]

\* line 250: the files the merge tool is given
merge_inputs(inputs, in_files) == inputs.in_files

InitMerge ==
    /\ mt = Idle /\ ct = Idle /\ rpe = Idle /\ lgr = Idle /\ gr = Idle
    /\ sdw = Idle /\ cdw = Idle /\ cfm = Idle /\ rtp = Idle /\ tns = Idle
    /\ \E inp \in IMMInputs :
          imm = [pc |-> "start", inputs |-> inp, in_files |-> <<>>, error |-> "none",
                 out_file |-> <<>>, out_avg |-> <<>>, out_mats |-> <<>>, out_movpar |-> <<>>,
                 merged |-> <<>>, mcflirt_in |-> <<>>, avg_written |-> <<>>]

\* lines 216-226: the name of the average, then the optional reorientation
IntraModalMerge_begin ==
    /\ imm.pc = "start"
    /\ imm' = [imm EXCEPT
                 !.out_avg = <<fname_presuffix(imm.inputs.in_files[1], "_avg")>>,
                 !.in_files = IF imm.inputs.to_lps
                              THEN [k \in 1..Len(imm.inputs.in_files) |->
                                       reorient(imm.inputs.in_files[k])]
                              ELSE imm.inputs.in_files,
                 !.pc = IF Len(imm.inputs.in_files) = 1 THEN "single" ELSE "merge"]
    /\ UNCHANGED <<mt, ct, rpe, lgr, gr, sdw, cdw, cfm, rtp, tns>>

\* lines 229-236: a single input that stays 5D
IntraModalMerge_single_5d ==
    /\ imm.pc = "single"
    /\ imm.in_files[1].ndim = 5 /\ imm.in_files[1].sqdim = 5
    /\ imm' = [imm EXCEPT !.pc = "raised", !.error = "RuntimeError"]
    /\ UNCHANGED <<mt, ct, rpe, lgr, gr, sdw, cdw, cfm, rtp, tns>>

\* lines 229-247: a single input of fewer than four effective dimensions
IntraModalMerge_single_passthrough ==
    /\ imm.pc = "single"
    /\ imm.in_files[1].sqdim < 4
    /\ LET file == IF imm.in_files[1].ndim = 5 THEN squeezed(imm.in_files[1])
                   ELSE imm.in_files[1]
       IN  imm' = [imm EXCEPT !.in_files = <<file>>, !.out_file = <<file>>,
                              !.out_avg = <<file>>, !.pc = "done"]
    /\ UNCHANGED <<mt, ct, rpe, lgr, gr, sdw, cdw, cfm, rtp, tns>>

\* lines 229-248: a single 4D input goes on to motion correction
IntraModalMerge_single_series ==
    /\ imm.pc = "single"
    /\ imm.in_files[1].sqdim = 4
    /\ LET file == IF imm.in_files[1].ndim = 5 THEN squeezed(imm.in_files[1])
                   ELSE imm.in_files[1]
       IN  imm' = [imm EXCEPT !.in_files = <<file>>,
                              !.merged = <<[merged_from |-> <<file>>, tool |-> "none"]>>,
                              !.pc = "mcflirt"]
    /\ UNCHANGED <<mt, ct, rpe, lgr, gr, sdw, cdw, cfm, rtp, tns>>

\* lines 250-251: several inputs are merged along time
IntraModalMerge_merge ==
    /\ imm.pc = "merge"
    /\ imm' = [imm EXCEPT
                 !.merged = <<[merged_from |-> merge_inputs(imm.inputs, imm.in_files),
                               tool |-> "fslmerge"]>>,
                 !.pc = "mcflirt"]
    /\ UNCHANGED <<mt, ct, rpe, lgr, gr, sdw, cdw, cfm, rtp, tns>>

\* line 251: the merge tool fails
IntraModalMerge_merge_fails ==
    /\ imm.pc = "merge"
    /\ imm' = [imm EXCEPT !.pc = "raised", !.error = "ToolFailure"]
    /\ UNCHANGED <<mt, ct, rpe, lgr, gr, sdw, cdw, cfm, rtp, tns>>

\* lines 252-257: motion correction of the series, whatever inputs.hmc is
IntraModalMerge_mcflirt ==
    /\ imm.pc = "mcflirt"
    /\ imm' = [imm EXCEPT !.mcflirt_in = imm.merged,
                          !.out_mats = <<"mat_file">>,
                          !.out_movpar = <<"par_file">>,
                          !.out_file = <<[imm.merged[1] EXCEPT !.tool = "mcflirt"]>>,
                          !.pc = "average"]
    /\ UNCHANGED <<mt, ct, rpe, lgr, gr, sdw, cdw, cfm, rtp, tns>>

\* line 254: the motion-correction tool fails
IntraModalMerge_mcflirt_fails ==
    /\ imm.pc = "mcflirt"
    /\ imm' = [imm EXCEPT !.mcflirt_in = imm.merged,
                          !.pc = "raised", !.error = "ToolFailure"]
    /\ UNCHANGED <<mt, ct, rpe, lgr, gr, sdw, cdw, cfm, rtp, tns>>

\* lines 259-268: the mean over time, written under the early name
IntraModalMerge_average ==
    /\ imm.pc = "average"
    /\ imm' = [imm EXCEPT !.avg_written = <<[name |-> imm.out_avg[1],
                                             mean_of |-> imm.out_file[1],
                                             zero_based |-> imm.inputs.zero_based_avg]>>,
                          !.pc = "done"]
    /\ UNCHANGED <<mt, ct, rpe, lgr, gr, sdw, cdw, cfm, rtp, tns>>

NextMerge ==
    \/ IntraModalMerge_begin
    \/ IntraModalMerge_single_5d
    \/ IntraModalMerge_single_passthrough
    \/ IntraModalMerge_single_series
    \/ IntraModalMerge_merge
    \/ IntraModalMerge_merge_fails
    \/ IntraModalMerge_mcflirt
    \/ IntraModalMerge_mcflirt_fails
    \/ IntraModalMerge_average

SpecMerge == InitMerge /\ [][NextMerge]_vars

(***************************************************************************)
(* Claims about IntraModalMerge                                            *)
(***************************************************************************)
\* C9: when to_lps is true and more than one input is given, the series
\* handed to the motion-correction tool is the merge of the reoriented
\* copies of the inputs, in input order.
C9_MergeOfReorientedCopies ==
    (/\ imm.pc \in {"average", "done", "raised"}
     /\ imm.mcflirt_in # <<>>
     /\ imm.inputs.to_lps
     /\ Len(imm.inputs.in_files) > 1) =>
        imm.mcflirt_in[1].merged_from =
            [k \in 1..Len(imm.inputs.in_files) |-> reorient(imm.inputs.in_files[k])]

\* the motion-correction tool has been invoked
IMMMcflirtInvoked == imm.pc \in {"average", "done", "raised"} /\ imm.mcflirt_in # <<>>

\* the input is one volume of fewer than four dimensions once its empty
\* dimensions are dropped
IMMSingleVolume == Len(imm.inputs.in_files) = 1 /\ imm.inputs.in_files[1].sqdim < 4

\* C22: when the hmc flag is false the rigid motion-correction tool is never
\* invoked; it is invoked only when the flag is true and the input is not a
\* single effectively-3D volume.
C22_McflirtOnlyWhenHmc ==
    IMMMcflirtInvoked => (imm.inputs.hmc /\ ~IMMSingleVolume)

(***************************************************************************)
(* SplitDWIs and split_bvals_bvecs (images.py 33-70, 442-455)              *)
(***************************************************************************)
\* b-values of the combined table and thresholds tried
SplitBvalues == {0, 50, 1000}
SplitThresholds == {50, 1000}

\* a combined gradient table in FSL layout: the bval file is one row of N
\* values, the bvec file three rows (x, y, z) of N values
GradientTable(bvals, vecs) ==
    [bval_file |-> bvals,
     bvec_file |-> [c \in 1..3 |-> [k \in 1..Len(vecs) |-> vecs[k][c]]]]

GradientTables(n) ==
    {GradientTable(bvals, vecs) : bvals \in [1..n -> SplitBvalues], vecs \in [1..n -> BvecValues]}

\* the volumes the table of an input describes, in volume order
TableVectors(table) ==
    [k \in 1..Len(table.bval_file) |-> [c \in 1..3 |-> table.bvec_file[c][k]]]

SplitInputs ==
    UNION {[table : GradientTables(n), num_volumes : {n}, b0_threshold : SplitThresholds] :
           n \in 1..SplitMaxVols}

\* dipy.io.read_bvals_bvecs as called at line 444: the loaded arrays are
\* squeezed; a bvec array that is not two dimensional is rejected, one with
\* more columns than rows is transposed, and it must then have three columns
read_bvals_bvecs(table) ==
    LET n == Len(table.bvec_file[1])
    IN  IF n = 1 THEN [raised |-> TRUE, bvals |-> <<>>, bvecs |-> <<>>]
        ELSE IF n > 3 THEN [raised |-> FALSE, bvals |-> table.bval_file,
                            bvecs |-> [k \in 1..n |-> [c \in 1..3 |-> table.bvec_file[c][k]]]]
        ELSE IF n # 3 THEN [raised |-> TRUE, bvals |-> <<>>, bvecs |-> <<>>]
        ELSE [raised |-> FALSE, bvals |-> table.bval_file, bvecs |-> table.bvec_file]

\* a per-volume text file: its sample number and the values np.savetxt wrote
SplitFile(nsample, values) == [nsample |-> nsample, values |-> values]

\* lines 442-455
split_bvals_bvecs(table) ==
    LET read == read_bvals_bvecs(table)
        n == zip_len(read.bvals, read.bvecs)
    IN  [raised |-> read.raised,
         split_bval_files |-> [k \in 1..n |-> SplitFile(k - 1, <<read.bvals[k]>>)],
         split_bvec_files |-> [k \in 1..n |-> SplitFile(k - 1, read.bvecs[k])]]

\* the b-value counts as a b0 up to and including the threshold
at_or_below_threshold(bvalue, b0_threshold) == bvalue <= b0_threshold

\* line 61: bvalues < self.inputs.b0_threshold
below_threshold(bvalue, b0_threshold) == bvalue < b0_threshold

\* np.flatnonzero over the first n entries: the indices (0-based) that
\* satisfy the test, ascending
RECURSIVE flatnonzero_below(_, _, _)
flatnonzero_below(bvalues, b0_threshold, n) ==
    IF n = 0 THEN <<>>
    ELSE LET rest == flatnonzero_below(bvalues, b0_threshold, n - 1)
         IN  IF below_threshold(bvalues[n], b0_threshold) THEN Append(rest, n - 1) ELSE rest

InitSplit ==
    /\ mt = Idle /\ ct = Idle /\ rpe = Idle /\ lgr = Idle /\ imm = Idle /\ gr = Idle
    /\ cdw = Idle /\ cfm = Idle /\ rtp = Idle /\ tns = Idle
    /\ \E inp \in SplitInputs :
          sdw = [pc |-> "start", inputs |-> inp, error |-> "none", registered |-> {},
                 split_dwi_files |-> <<>>, split_bval_files |-> <<>>, split_bvec_files |-> <<>>,
                 dwi_files |-> <<>>, bval_files |-> <<>>, bvec_files |-> <<>>,
                 b0_images |-> <<>>, b0_indices |-> <<>>]

\* lines 54-55: one file per volume of the series
SplitDWIs_split ==
    /\ sdw.pc = "start"
    /\ sdw' = [sdw EXCEPT !.split_dwi_files = [k \in 1..sdw.inputs.num_volumes |-> [vol |-> k - 1]],
                          !.pc = "table"]
    /\ UNCHANGED <<mt, ct, rpe, lgr, imm, gr, cdw, cfm, rtp, tns>>

\* line 55: the split tool fails
SplitDWIs_split_fails ==
    /\ sdw.pc = "start"
    /\ sdw' = [sdw EXCEPT !.pc = "raised", !.error = "ToolFailure"]
    /\ UNCHANGED <<mt, ct, rpe, lgr, imm, gr, cdw, cfm, rtp, tns>>

\* lines 57-58
SplitDWIs_split_bvals_bvecs ==
    /\ sdw.pc = "table"
    /\ LET split == split_bvals_bvecs(sdw.inputs.table)
       IN  sdw' = IF split.raised
                  THEN [sdw EXCEPT !.pc = "raised", !.error = "IOError"]
                  ELSE [sdw EXCEPT !.split_bval_files = split.split_bval_files,
                                   !.split_bvec_files = split.split_bvec_files,
                                   !.pc = "classify"]
    /\ UNCHANGED <<mt, ct, rpe, lgr, imm, gr, cdw, cfm, rtp, tns>>

\* lines 60-70
SplitDWIs_classify ==
    /\ sdw.pc = "classify"
    /\ LET bvalues == sdw.inputs.table.bval_file
           b0_indices == flatnonzero_below(bvalues, sdw.inputs.b0_threshold, Len(bvalues))
       IN  sdw' = [sdw EXCEPT
                     !.b0_indices = b0_indices,
                     !.b0_images = [k \in 1..Len(b0_indices) |->
                                       sdw.split_dwi_files[b0_indices[k] + 1]],
                     !.dwi_files = sdw.split_dwi_files,
                     !.bval_files = sdw.split_bval_files,
                     !.bvec_files = sdw.split_bvec_files,
                     !.registered = {"dwi_files", "bval_files", "bvec_files",
                                     "b0_images", "b0_indices"},
                     !.pc = "done"]
    /\ UNCHANGED <<mt, ct, rpe, lgr, imm, gr, cdw, cfm, rtp, tns>>

NextSplit ==
    \/ SplitDWIs_split
    \/ SplitDWIs_split_fails
    \/ SplitDWIs_split_bvals_bvecs
    \/ SplitDWIs_classify

SpecSplit == InitSplit /\ [][NextSplit]_vars

(***************************************************************************)
(* Claims about SplitDWIs                                                  *)
(***************************************************************************)
\* the volume indices (0-based) whose b-value is strictly below the threshold
SplitB0Set ==
    {i \in 0..(sdw.inputs.num_volumes - 1) :
        sdw.inputs.table.bval_file[i + 1] < sdw.inputs.b0_threshold}

InitRoundTrip ==
    /\ mt = Idle /\ ct = Idle /\ rpe = Idle /\ lgr = Idle /\ imm = Idle /\ gr = Idle
    /\ sdw = Idle /\ cdw = Idle /\ cfm = Idle /\ tns = Idle
    /\ \E n \in 1..SplitMaxVols : \E table \in GradientTables(n) :
          rtp = [pc |-> "start", table |-> table, error |-> "none",
                 split_bval_files |-> <<>>, split_bvec_files |-> <<>>,
                 final_bvals |-> <<>>, final_bvecs |-> <<>>]

\* split_bvals_bvecs returns the per-volume files
RoundTrip_split ==
    /\ rtp.pc = "start"
    /\ ~split_bvals_bvecs(rtp.table).raised
    /\ rtp' = [rtp EXCEPT !.split_bval_files = split_bvals_bvecs(rtp.table).split_bval_files,
                          !.split_bvec_files = split_bvals_bvecs(rtp.table).split_bvec_files,
                          !.pc = "bvals"]
    /\ UNCHANGED <<mt, ct, rpe, lgr, imm, gr, sdw, cdw, cfm, tns>>

\* split_bvals_bvecs raises while reading the table
RoundTrip_split_raises ==
    /\ rtp.pc = "start"
    /\ split_bvals_bvecs(rtp.table).raised
    /\ rtp' = [rtp EXCEPT !.pc = "raised", !.error = "IOError"]
    /\ UNCHANGED <<mt, ct, rpe, lgr, imm, gr, sdw, cdw, cfm, tns>>

\* concatenate_bvals over the files in returned order (each holds one value)
RoundTrip_concatenate_bvals ==
    /\ rtp.pc = "bvals"
    /\ LET out == concatenate_bvals([k \in 1..Len(rtp.split_bval_files) |->
                                        rtp.split_bval_files[k].values[1]])
       IN  rtp' = IF out.raised
                  THEN [rtp EXCEPT !.pc = "raised", !.error = "ValueError"]
                  ELSE [rtp EXCEPT !.final_bvals = out.final_bvals, !.pc = "bvecs"]
    /\ UNCHANGED <<mt, ct, rpe, lgr, imm, gr, sdw, cdw, cfm, tns>>

\* concatenate_bvecs over the files in returned order
RoundTrip_concatenate_bvecs ==
    /\ rtp.pc = "bvecs"
    /\ rtp' = [rtp EXCEPT
                 !.final_bvecs = concatenate_bvecs([k \in 1..Len(rtp.split_bvec_files) |->
                                                       rtp.split_bvec_files[k].values]),
                 !.pc = "done"]
    /\ UNCHANGED <<mt, ct, rpe, lgr, imm, gr, sdw, cdw, cfm, tns>>

NextRoundTrip ==
    \/ RoundTrip_split
    \/ RoundTrip_split_raises
    \/ RoundTrip_concatenate_bvals
    \/ RoundTrip_concatenate_bvecs

SpecRoundTrip == InitRoundTrip /\ [][NextRoundTrip]_vars

\* C14: for every combined gradient table of N >= 1 volumes, splitting it and
\* concatenating the per-volume files in returned order reproduces the
\* original b-values and b-vectors, in the original volume order.
C14_SplitConcatRoundTrip ==
    rtp.pc \in {"raised", "done"} =>
        /\ rtp.pc = "done"
        /\ rtp.final_bvals = rtp.table.bval_file
        /\ rtp.final_bvecs = TableVectors(rtp.table)

(***************************************************************************)
(* ConformDwi (images.py 378-439)                                          *)
(***************************************************************************)
AxisCodes == {"L", "R", "P", "A", "I", "S"}

\* nibabel's labels (('L','R'),('P','A'),('I','S')): the anatomical axis of a
\* code and its direction (-1 for the first label of a pair, 1 for the second)
code_axis(code) == IF code \in {"L", "R"} THEN 0 ELSE IF code \in {"P", "A"} THEN 1 ELSE 2

code_direction(code) == IF code \in {"L", "P", "I"} THEN -1 ELSE 1

\* the axis codes an image can have: every anatomical axis once
AxCodes ==
    {ax \in [1..3 -> AxisCodes] : {code_axis(ax[i]) : i \in 1..3} = {0, 1, 2}}

\* line 412, and line 466 of to_lps
new_axcodes == <<"L", "P", "S">>

\* nb.orientations.axcodes2ornt: per array axis, (anatomical axis, direction)
axcodes2ornt(axcodes) == [i \in 1..3 |-> <<code_axis(axcodes[i]), code_direction(axcodes[i])>>]

\* nb.orientations.ornt_transform: row i tells, for axis i of the start
\* array, which axis of the end array it becomes and whether it is flipped
ornt_transform(start_ornt, end_ornt) ==
    [i \in 1..3 |->
        LET j == CHOOSE j \in 1..3 : end_ornt[j][1] = start_ornt[i][1]
        IN  <<j - 1, IF start_ornt[i][2] = end_ornt[j][2] THEN 1 ELSE -1>>]

\* img.as_reoriented(ornt): axis i of the input, flipped by ornt[i][2],
\* becomes axis ornt[i][1] of the output.  The reoriented volume is kept as,
\* per output axis, the input axis it shows and the sign it shows it with
as_reoriented(ornt) ==
    [k \in 1..3 |->
        LET i == CHOOSE i \in 1..3 : ornt[i][1] = k - 1
        IN  <<i - 1, ornt[i][2]>>]

\* a volume that was not reoriented
same_axes == [k \in 1..3 |-> <<k - 1, 1>>]

\* row * flip
scaled(row, flip) == [c \in 1..Len(row) |-> row[c] * flip]

\* lines 426-428: output row this_axnum is input row axnum times flip, for
\* (axnum, flip) the row this_axnum of the transform
flip_bvecs(bvec_array, transform_orientation) ==
    [this_axnum \in 1..3 |->
        scaled(bvec_array[transform_orientation[this_axnum][1] + 1],
               transform_orientation[this_axnum][2])]

\* the bvec file next to the image: an array of 3 rows (FSL layout) or, not
\* recognised, of 2 rows
BvecArrays ==
    UNION {[1..r -> [1..c -> {0, 1}]] : r \in {2, 3}, c \in 1..CDMaxVols}

ConformDwiInputs == [axcodes : AxCodes, bvec_array : BvecArrays]

InitConformDwi ==
    /\ mt = Idle /\ ct = Idle /\ rpe = Idle /\ lgr = Idle /\ imm = Idle /\ gr = Idle
    /\ sdw = Idle /\ cfm = Idle /\ rtp = Idle /\ tns = Idle
    /\ \E inp \in ConformDwiInputs :
          cdw = [pc |-> "start", inputs |-> inp, error |-> "none", written |-> {},
                 dwi_file |-> <<>>, bvec_file |-> <<>>, bval_file |-> <<>>]

\* lines 433-437: the image is LPS already
ConformDwi_keep ==
    /\ cdw.pc = "start"
    /\ cdw.inputs.axcodes = new_axcodes
    /\ cdw' = [cdw EXCEPT !.dwi_file = <<[path |-> "fname", axes |-> same_axes]>>,
                          !.bvec_file = <<[path |-> "bvec_fname",
                                           rows |-> cdw.inputs.bvec_array]>>,
                          !.bval_file = <<"bval_fname">>,
                          !.pc = "done"]
    /\ UNCHANGED <<mt, ct, rpe, lgr, imm, gr, sdw, cfm, rtp, tns>>

\* lines 413-431 and 437: the image and the bvecs are reoriented
ConformDwi_reorient ==
    /\ cdw.pc = "start"
    /\ cdw.inputs.axcodes # new_axcodes
    /\ LET transform_orientation == ornt_transform(axcodes2ornt(cdw.inputs.axcodes),
                                                   axcodes2ornt(new_axcodes))
       IN  IF Len(cdw.inputs.bvec_array) # 3
           THEN cdw' = [cdw EXCEPT !.written = {"out_fname"},
                                   !.pc = "raised", !.error = "ValueError"]
           ELSE cdw' = [cdw EXCEPT
                          !.written = {"out_fname", "out_bvec_fname"},
                          !.dwi_file = <<[path |-> "out_fname",
                                          axes |-> as_reoriented(transform_orientation)]>>,
                          !.bvec_file = <<[path |-> "out_bvec_fname",
                                           rows |-> flip_bvecs(cdw.inputs.bvec_array,
                                                               transform_orientation)]>>,
                          !.bval_file = <<"bval_fname">>,
                          !.pc = "done"]
    /\ UNCHANGED <<mt, ct, rpe, lgr, imm, gr, sdw, cfm, rtp, tns>>

NextConformDwi ==
    \/ ConformDwi_keep
    \/ ConformDwi_reorient

SpecConformDwi == InitConformDwi /\ [][NextConformDwi]_vars

\* C15: when ConformDwi completes on an image that is not (L,P,S), the
\* outputs are the newly written volume and bvec file, and row k of the
\* output bvecs is sign_k times row src_k of the input bvecs, (src_k, sign_k)
\* being the input axis and the sign that output axis k of the reoriented
\* volume shows; on an (L,P,S) image the volume and bvec outputs are the
\* input paths; the bval output is the input bval path in both cases.
C15_BvecsFollowVolume ==
    cdw.pc = "done" =>
        /\ cdw.bval_file = <<"bval_fname">>
        /\ IF cdw.inputs.axcodes = new_axcodes
           THEN /\ cdw.dwi_file[1].path = "fname"
                /\ cdw.bvec_file[1] = [path |-> "bvec_fname", rows |-> cdw.inputs.bvec_array]
           ELSE /\ cdw.dwi_file[1].path = "out_fname"
                /\ cdw.bvec_file[1].path = "out_bvec_fname"
                /\ \A k \in 1..3 :
                      LET src == cdw.dwi_file[1].axes[k][1]
                          sign == cdw.dwi_file[1].axes[k][2]
                      IN  cdw.bvec_file[1].rows[k] = scaled(cdw.inputs.bvec_array[src + 1], sign)

(***************************************************************************)
(* Conform (images.py 285-376) and to_lps (465-478)                        *)
(***************************************************************************)
\* nb.io_orientation of an affine with the given axis codes: per array axis,
\* the world (RAS+) axis it runs along and its direction
io_orientation(axcodes) == axcodes2ornt(axcodes)

\* the orientation that changes nothing
identity_ornt == <<<<0, 1>>, <<1, 1>>, <<2, 1>>>>

\* nb.orientations.inv_ornt_aff(ornt, shape) for the shape of the input
\* image: the affine that undoes the flips and the transpose of ornt.  For
\* one shape, two orientations give the same affine only if they are equal
inv_ornt_aff(ornt) == [undo |-> ornt]

\* lines 465-478: the orientation applied to get an LPS image; the identity,
\* and the input image object itself, when the image is LPS already
to_lps_ornt(input_axcodes) ==
    IF input_axcodes = new_axcodes THEN identity_ornt
    ELSE ornt_transform(axcodes2ornt(input_axcodes), axcodes2ornt(new_axcodes))

\* lines 324-325: the transform from the original to the reoriented image is
\* rebuilt from the orientation of the reoriented (LPS) affine
ornt_xfm == inv_ornt_aff(io_orientation(new_axcodes))

\* line 368.  reoriented.affine is orig_img.affine.dot(inv_ornt_aff(ornt))
\* for the orientation to_lps applied (as_reoriented), and target_affine is
\* reoriented.affine.dot(conform_xfm) (lines 327-328 and 357), so
\* orig_img.affine.dot(ornt_xfm).dot(conform_xfm) is close to target_affine
\* exactly when ornt_xfm is the affine of the orientation that was applied
transform_matches_target(input_axcodes) == ornt_xfm = inv_ornt_aff(to_lps_ornt(input_axcodes))

ConformInputs == [axcodes : AxCodes, rescale : BOOLEAN, resize : BOOLEAN]

InitConform ==
    /\ mt = Idle /\ ct = Idle /\ rpe = Idle /\ lgr = Idle /\ imm = Idle /\ gr = Idle
    /\ sdw = Idle /\ cdw = Idle /\ rtp = Idle /\ tns = Idle
    /\ \E inp \in ConformInputs :
          cfm = [pc |-> "start", inputs |-> inp, error |-> "none", written |-> {},
                 reoriented |-> "none", out_name |-> "none",
                 out_file |-> <<>>, transform |-> <<>>]

\* lines 311-313: reoriented is the input image object itself when that is LPS
Conform_to_lps ==
    /\ cfm.pc = "start"
    /\ cfm' = [cfm EXCEPT !.reoriented = IF cfm.inputs.axcodes = new_axcodes
                                         THEN "orig_img" ELSE "reoriented_img",
                          !.pc = "resample"]
    /\ UNCHANGED <<mt, ct, rpe, lgr, imm, gr, sdw, cdw, rtp, tns>>

\* lines 341-358: a rescaled or resized image is a new image object
Conform_resample ==
    /\ cfm.pc = "resample"
    /\ cfm' = [cfm EXCEPT !.reoriented = IF cfm.inputs.rescale \/ cfm.inputs.resize
                                         THEN "resampled_img" ELSE @,
                          !.pc = "write"]
    /\ UNCHANGED <<mt, ct, rpe, lgr, imm, gr, sdw, cdw, rtp, tns>>

\* lines 360-365
Conform_write_image ==
    /\ cfm.pc = "write"
    /\ cfm' = IF cfm.reoriented # "orig_img"
              THEN [cfm EXCEPT !.out_name = "fname_lps", !.written = {"fname_lps"},
                               !.pc = "assert"]
              ELSE [cfm EXCEPT !.out_name = "fname", !.pc = "assert"]
    /\ UNCHANGED <<mt, ct, rpe, lgr, imm, gr, sdw, cdw, rtp, tns>>

\* lines 367-368: the assertion fails
Conform_assert_fails ==
    /\ cfm.pc = "assert"
    /\ ~transform_matches_target(cfm.inputs.axcodes)
    /\ cfm' = [cfm EXCEPT !.pc = "raised", !.error = "AssertionError"]
    /\ UNCHANGED <<mt, ct, rpe, lgr, imm, gr, sdw, cdw, rtp, tns>>

\* lines 367-376: the assertion holds; the transform is written, the outputs set
Conform_register ==
    /\ cfm.pc = "assert"
    /\ transform_matches_target(cfm.inputs.axcodes)
    /\ cfm' = [cfm EXCEPT !.written = @ \cup {"mat_name"},
                          !.out_file = <<cfm.out_name>>,
                          !.transform = <<"mat_name">>,
                          !.pc = "done"]
    /\ UNCHANGED <<mt, ct, rpe, lgr, imm, gr, sdw, cdw, rtp, tns>>

NextConform ==
    \/ Conform_to_lps
    \/ Conform_resample
    \/ Conform_write_image
    \/ Conform_assert_fails
    \/ Conform_register

SpecConform == InitConform /\ [][NextConform]_vars

\* the image needs no reorientation, no rescale and no resize
ConformNothingToDo ==
    cfm.inputs.axcodes = new_axcodes /\ ~cfm.inputs.rescale /\ ~cfm.inputs.resize

\* C16: Conform ends with the transform file written and out_file set to the
\* original input path exactly when the image needed no reorientation, no
\* rescale and no resize, and to a newly written '_lps' file in every other
\* case.
C16_OutFileIsInputIffUntouched ==
    cfm.pc \in {"raised", "done"} =>
        /\ cfm.pc = "done"
        /\ cfm.transform = <<"mat_name">> /\ "mat_name" \in cfm.written
        /\ IF ConformNothingToDo
           THEN cfm.out_file = <<"fname">>
           ELSE cfm.out_file = <<"fname_lps">> /\ "fname_lps" \in cfm.written

(***************************************************************************)
(* The steps that run external tools, side by side: a behaviour is one     *)
(* invocation of ComposeTransforms, LocalGradientRotation, ConcatRPESplits *)
(* or IntraModalMerge                                                      *)
(***************************************************************************)
InitSteps == InitCompose \/ InitLocal \/ InitRPE \/ InitMerge

NextSteps == NextCompose \/ NextLocal \/ NextRPE \/ NextMerge

SpecSteps == InitSteps /\ [][NextSteps]_vars

\* the list outputs ConcatRPESplits registers before it combines affines
RPEEarlyOutputs ==
    {"b0_ref_image", "b0_ref_mask", "dwi_files", "bval_files", "bvec_files",
     "b0_images", "b0_indices", "original_grouping"}

\* C17 as stated: when a step has aborted, none of its outputs is in its
\* result record.
C17_NothingRegisteredOnAbort ==
    /\ ct.pc = "raised" => ct.registered = {}
    /\ lgr.pc = "raised" => lgr.registered = {}
    /\ rpe.pc = "raised" => rpe.registered = {}
    /\ imm.pc = "raised" => (imm.out_avg = <<>> /\ imm.out_file = <<>>
                             /\ imm.out_mats = <<>> /\ imm.out_movpar = <<>>)

\* C17 amended: when a step has aborted, the outputs that its per-volume or
\* external-tool work produces are not in its result record; the outputs
\* whose value is known before that work are: transform_lists (unless an
\* input assertion failed before the chains were built), local_bvecs, the
\* list outputs of ConcatRPESplits, and out_avg.
C17_OnlyEarlyOutputsOnAbort ==
    /\ ct.pc = "raised" =>
          /\ ct.registered = (IF ct.error = "ToolFailure" THEN {"transform_lists"} ELSE {})
          /\ ct.out_warps = <<>> /\ ct.out_affines = <<>> /\ ct.log_cmdline = <<>>
    /\ lgr.pc = "raised" => lgr.registered = {"local_bvecs"}
    /\ rpe.pc = "raised" =>
          /\ RPEEarlyOutputs \subseteq rpe.registered
          /\ rpe.registered \subseteq RPEEarlyOutputs \cup {"to_dwi_ref_warps"}
          /\ rpe.to_dwi_ref_affines = <<>>
    /\ imm.pc = "raised" =>
          /\ imm.out_avg = <<fname_presuffix(imm.inputs.in_files[1], "_avg")>>
          /\ imm.out_file = <<>> /\ imm.out_mats = <<>> /\ imm.out_movpar = <<>>

\* a ComposeTransforms run that aborted in the pool after the resampling of
\* some volume had finished: transform_lists is registered, nothing else
C17_Witness ==
    /\ ct.pc = "raised"
    /\ ct.error = "ToolFailure"
    /\ ct.num_threads # 1
    /\ JobsIn(ct, "done") # {}
    /\ ct.registered = {"transform_lists"}

(***************************************************************************)
(* The tensor volume of the local gradient rotation: create_tensor_image   *)
(* (gradients.py 401-427) and tensor_from_vec in reorient_tensor_image     *)
(* (430-470), for one voxel                                                *)
(***************************************************************************)
TensorValues == {0, 1, 2}

\* lines 18-25, with 1-based positions
tensor_index(direction) ==
    CASE direction = "xx" -> <<1, 1>>
      [] direction = "xy" -> <<1, 2>>
      [] direction = "xz" -> <<1, 3>>
      [] direction = "yy" -> <<2, 2>>
      [] direction = "yz" -> <<2, 3>>
      [] direction = "zz" -> <<3, 3>>

\* line 413: the component files, in the order they are written
component_names == <<"xx", "xy", "xz", "yy", "yz", "zz">>

\* the order the docstrings give for the six values of a voxel of the tensor
\* file (lines 403 and 453): that of a NIfTI symmetric matrix
symmatrix_order == <<"xx", "xy", "yy", "xz", "yz", "zz">>

\* a symmetric 3x3 matrix from its six components
SymmetricTensor(c) ==
    <<<<c.xx, c.xy, c.xz>>, <<c.xy, c.yy, c.yz>>, <<c.xz, c.yz, c.zz>>>>

SymmetricTensors ==
    {SymmetricTensor(c) : c \in [xx : TensorValues, xy : TensorValues, xz : TensorValues,
                                 yy : TensorValues, yz : TensorValues, zz : TensorValues]}

\* the tensor with the x and y axes exchanged
swap_xy(t) == LET s == <<2, 1, 3>> IN [i \in 1..3 |-> [j \in 1..3 |-> t[s[i]][s[j]]]]

\* a rebuild that takes the six values in the order xx, xy, xz, yy, yz, zz
tensor_from_vec_row_order(vec) ==
    <<<<vec[1], vec[2], vec[3]>>,
      <<vec[2], vec[4], vec[5]>>,
      <<vec[3], vec[5], vec[6]>>>>

\* lines 452-458 (vec[0] is vec[1] here)
tensor_from_vec(vec) ==
    <<<<vec[1], vec[2], vec[4]>>,
      <<vec[2], vec[3], vec[5]>>,
      <<vec[4], vec[5], vec[6]>>>>

\* the tensor built at lines 408-410, and the order in which the tools write
\* the six values of a voxel into a tensor file
InitTensor ==
    /\ mt = Idle /\ ct = Idle /\ rpe = Idle /\ lgr = Idle /\ imm = Idle /\ gr = Idle
    /\ sdw = Idle /\ cdw = Idle /\ cfm = Idle /\ rtp = Idle
    /\ \E t \in SymmetricTensors : \E order \in {symmatrix_order, component_names} :
          tns = [pc |-> "start", tensor |-> t, order |-> order,
                 components |-> <<>>, held |-> <<>>, stored |-> <<>>, row_tensor |-> <<>>]

\* lines 412-418: one file per component name
create_tensor_image_components ==
    /\ tns.pc = "start"
    /\ tns' = [tns EXCEPT
                 !.components = [k \in 1..6 |->
                     [name |-> component_names[k],
                      value |-> tns.tensor[tensor_index(component_names[k])[1]]
                                          [tensor_index(component_names[k])[2]]]],
                 !.pc = "compose"]
    /\ UNCHANGED <<mt, ct, rpe, lgr, imm, gr, sdw, cdw, cfm, rtp>>

\* the value of the component file with the given name
component_value(components, name) ==
    LET k == CHOOSE k \in 1..6 : components[k].name = name IN components[k].value

\* lines 420-427: ImageMath puts the component files together
create_tensor_image_compose ==
    /\ tns.pc = "compose"
    /\ tns' = [tns EXCEPT
                 !.held = SymmetricTensor([xx |-> component_value(tns.components, "xx"),
                                           xy |-> component_value(tns.components, "xy"),
                                           xz |-> component_value(tns.components, "xz"),
                                           yy |-> component_value(tns.components, "yy"),
                                           yz |-> component_value(tns.components, "yz"),
                                           zz |-> component_value(tns.components, "zz")]),
                 !.pc = "reorient"]
    /\ UNCHANGED <<mt, ct, rpe, lgr, imm, gr, sdw, cdw, cfm, rtp>>

\* lines 433-444: ReorientTensorImage writes the reoriented tensor (here
\* left as it is, or with x and y exchanged), and the voxel is read back
reorient_tensor_image_load(exchange) ==
    /\ tns.pc = "reorient"
    /\ LET t == IF exchange THEN swap_xy(tns.held) ELSE tns.held
       IN  tns' = [tns EXCEPT
                     !.held = t,
                     !.stored = [k \in 1..6 |-> t[tensor_index(tns.order[k])[1]]
                                                 [tensor_index(tns.order[k])[2]]],
                     !.pc = "rebuild"]
    /\ UNCHANGED <<mt, ct, rpe, lgr, imm, gr, sdw, cdw, cfm, rtp>>

\* lines 460-461
reorient_tensor_image_rebuild ==
    /\ tns.pc = "rebuild"
    /\ tns' = [tns EXCEPT !.row_tensor = tensor_from_vec(tns.stored), !.pc = "done"]
    /\ UNCHANGED <<mt, ct, rpe, lgr, imm, gr, sdw, cdw, cfm, rtp>>

NextTensor ==
    \/ create_tensor_image_components
    \/ create_tensor_image_compose
    \/ \E exchange \in BOOLEAN : reorient_tensor_image_load(exchange)
    \/ reorient_tensor_image_rebuild

SpecTensor == InitTensor /\ [][NextTensor]_vars

\* C19 as stated: for a tensor volume whose six stored components are
\* ordered (xx, xy, xz, yy, yz, zz), the matrix rebuilt before the
\* eigen-decomposition is the tensor the voxel holds.
C19_RebuildFromRowOrder ==
    (tns.pc = "done" /\ tns.order = component_names) => tns.row_tensor = tns.held

\* C19 amended: for a tensor volume whose six stored components are ordered
\* (xx, xy, yy, xz, yz, zz), the matrix rebuilt before the
\* eigen-decomposition is [[xx,xy,xz],[xy,yy,yz],[xz,yz,zz]], the tensor the
\* voxel holds.
C19_RebuildFromSymMatrixOrder ==
    (tns.pc = "done" /\ tns.order = symmatrix_order) =>
        /\ tns.row_tensor = tns.held
        /\ \A k \in 1..6 :
              LET ij == tensor_index(symmatrix_order[k])
              IN  tns.row_tensor[ij[1]][ij[2]] = tns.stored[k]
                  /\ tns.row_tensor[ij[2]][ij[1]] = tns.stored[k]

\* a rebuilt voxel of a file in (xx, xy, yy, xz, yz, zz) order whose xz and
\* yy components differ
C19_Witness ==
    /\ tns.pc = "done"
    /\ tns.order = symmatrix_order
    /\ tns.held[1][3] # tns.held[2][2]
    /\ tns.held[1][2] # tns.held[2][3]
    /\ tns.row_tensor = tns.held

(***************************************************************************)
(* The unified series of ConcatRPESplits handed to match_transforms        *)
(* (images.py 146-172, gradients.py 112-117 and 279-298)                   *)
(***************************************************************************)
\* the outputs of a finished ConcatRPESplits become the arguments of the
\* call: dwi_files, the combined affines as the transforms, and b0_indices
RPEMatch_connect ==
    /\ rpe.pc = "done"
    /\ mt.pc = "idle"
    /\ mt' = [pc |-> "ready",
              inputs |-> [dwi_files |-> rpe.dwi_files,
                          transforms |-> rpe.to_dwi_ref_affines,
                          b0_indices |-> rpe.b0_indices],
              registered |-> {}, transforms |-> <<>>]
    /\ UNCHANGED <<ct, rpe, lgr, imm, gr, sdw, cdw, cfm, rtp, tns>>

NextRPEMatch ==
    \/ NextRPE
    \/ RPEMatch_connect
    \/ NextMatch

SpecRPEMatch == InitRPE /\ [][NextRPEMatch]_vars

\* the series whose motion correction produced a combined affine
AffineSeries(combined) == combined.affines[2].series

\* each series has at least one b0, its b0 indices are increasing and within
\* the series, and it brings one motion-correction affine per b0
RPEOneAffinePerB0 ==
    \A s \in {rpe.inputs.plus, rpe.inputs.minus} :
        /\ Len(s.b0_indices) >= 1
        /\ StrictlyIncreasing(s.b0_indices)
        /\ Within(s.b0_indices, Len(s.dwi))
        /\ Len(s.hmc_affines) = Len(s.b0_indices)

\* C20: when match_transforms is applied to the unified series of
\* ConcatRPESplits with one motion-correction transform per unified b0,
\* every plus-series volume is bound to a transform of a plus-series b0 and
\* every minus-series volume to a transform of a minus-series b0.
C20_BindingStaysWithinSeries ==
    (mt.pc = "done" /\ RPEOneAffinePerB0) =>
        /\ Len(mt.transforms) = Len(rpe.dwi_files)
        /\ \A p \in 1..Len(rpe.dwi_files) :
              AffineSeries(mt.transforms[p]) = rpe.original_grouping[p]

====
